---- MODULE Spec2Model ----
(***************************************************************************)
(* Model of the replication engine of tally-fastapi: SyncService           *)
(* (full_sync / incremental_sync), DatabaseService, AuditService and the   *)
(* Tally Gateway as their environment (Spec); RetryService and its         *)
(* CircuitBreaker (SpecRetry); the retry decorator around                  *)
(* TallyService.send_xml (SpecWrap); SyncQueueService over the             *)
(* Synchronizer (SpecQueue); and the status a session publishes through    *)
(* get_status (SpecStatus, and SpecStatusLive with the fairness of the      *)
(* event loop).                                                            *)
(*                                                                         *)
(* The event loop is single threaded: the code between two awaits that     *)
(* really suspend (a Gateway request, a store statement) is one atomic     *)
(* step.  Each action below is such a step of one invocation.              *)
(***************************************************************************)
EXTENDS Integers, Sequences, FiniteSets, TLC

----------------------------------------------------------------------------
(* Bounds of the model *)

MaxGuid == 1      \* ledgers / vouchers of a company at the Gateway: guids 1..MaxGuid
MaxChanges == 1   \* alterations and deletions of objects at the Gateway
MaxFaults == 1    \* number of failing store writes / Gateway requests
MaxSyncs == 2     \* number of admitted sync invocations
MaxCalls == 5     \* number of execute_with_retry invocations
MaxTime == 25     \* the clock runs from 0 to MaxTime seconds
TickSeconds == 5  \* the clock advances in steps of TickSeconds
MaxSends == 3     \* number of send_xml calls
MaxAdds == 2      \* number of accepted add_companies calls
MaxStarts == 2    \* number of accepted start_processing calls
NumMaster == 2    \* master tables of the export configuration (12 by default)
NumTransaction == 2  \* transaction tables of the export configuration (14 by default)
MaxCount == 1     \* rows written for one table
MaxRuns == 2      \* sessions whose published status is followed
MaxRejects == 1   \* calls made while a session is running

----------------------------------------------------------------------------
(* Fixed sets *)

Companies == {"A", "B"}
ActiveCo == "A"                 \* the company active in Tally
Callers == {"http", "sched"}    \* tasks that invoke the Synchronizer

\* utils/constants.py, SyncStatus
IDLE == "idle"
RUNNING == "running"
COMPLETED == "completed"
FAILED == "failed"
CANCELLED == "cancelled"

\* utils/constants.py ALL_TABLES, cut to one Primary master table, one
\* Primary transaction table and one Secondary transaction table (the child
\* rows of a voucher, keyed by the voucher's guid).
M == "mst_ledger"
V == "trn_voucher"
K == "trn_accounting"
MASTER_TABLES == <<M>>
TRANSACTION_TABLES == <<V, K>>
ALL_TABLES == MASTER_TABLES \o TRANSACTION_TABLES
Tables == {M, K, V}

Range(s) == {s[i] : i \in DOMAIN s}

VARIABLES
    specFile,    \* tally-export-config.yaml: "present" or "missing"
    status,      \* SyncService.status
    cancelReq,   \* SyncService._cancel_requested
    curCo,       \* SyncService.current_company
    cfgCo,       \* config.tally.company
    pc,          \* position of each caller's invocation
    loc,         \* locals of each caller's invocation
    store,       \* replicated tables: table -> set of rows
    delTbl,      \* staging table _delete
    cc,          \* table company_config: company name -> record or NoRow
    kv,          \* table config ('Last AlterID Master', 'Last AlterID Transaction') or NoRow
    audit,       \* table audit_log, in insertion order
    deleted,     \* table deleted_records
    curSid,      \* AuditService.current_session_id (0 = None)
    nextSid,     \* source of fresh session ids
    sidecar,     \* sync_state.json: "absent" or "running"
    gw,          \* Gateway, company "A": table -> (guid number -> alter id, 0 = absent)
    gwAlt,       \* Gateway, company "A": [master, transaction] alter-ids
    changes,     \* Gateway changes still to happen
    faults,      \* failures still to be injected
    syncs,       \* admissions still allowed
    hst          \* history of each invocation, for stating the claims

vars == <<specFile, status, cancelReq, curCo, cfgCo, pc, loc, store, delTbl, cc, kv,
          audit, deleted, curSid, nextSid, sidecar, gw, gwAlt, changes, faults, syncs,
          hst>>

NoRow == [none |-> TRUE]

----------------------------------------------------------------------------
(* XMLBuilder: the table specs *)

\* XMLBuilder._load_export_config / get_master_tables
get_master_tables == IF specFile = "present" THEN MASTER_TABLES ELSE <<>>

\* XMLBuilder.get_transaction_tables
get_transaction_tables == IF specFile = "present" THEN TRANSACTION_TABLES ELSE <<>>

\* XMLBuilder.reload_config(incremental=True): the table specs are loaded
\* once and stay as they are
reload_config == specFile

\* nature of a table spec: Primary tables own a guid
IsPrimary(t) == t \in {M, V}

\* cascade_delete of a table spec: child tables purged with a Primary row
cascade_delete(t) == IF t = V THEN {K} ELSE {}

----------------------------------------------------------------------------
(* The Gateway *)

\* company a request is answered for: SVCURRENTCOMPANY when set, else the active one
Target == IF cfgCo = "" THEN ActiveCo ELSE cfgCo

\* collection a table spec reads: the child rows come with their voucher
Coll(t) == IF t = M THEN M ELSE V

\* alter ids of the objects of company c (company "B" never changes)
GwObjects(t, c) ==
    IF c = "A" THEN gw[Coll(t)] ELSE [n \in 1..MaxGuid |-> IF n = 1 THEN 1 ELSE 0]

\* rows the Gateway holds for table t of company c
GwRows(t, c) ==
    {[guid |-> <<c, n>>, alt |-> GwObjects(t, c)[n]] :
        n \in {k \in 1..MaxGuid : GwObjects(t, c)[k] > 0}}

\* master / transaction alter ids of company c
GwAlterIds(c) == IF c = "A" THEN gwAlt ELSE [master |-> 1, transaction |-> 1]

\* outcomes of one request or one store write: TRUE = succeeds
Outcomes == IF faults > 0 THEN {TRUE, FALSE} ELSE {TRUE}
Spend(ok) == IF ok THEN faults ELSE faults - 1


\* failure points of a step: "ok" = nothing fails
FaultChoices(points) == IF faults > 0 THEN {"ok"} \cup points ELSE {"ok"}
SpendAt(f) == IF f = "ok" THEN faults ELSE faults - 1

\* TallyService.get_last_alter_ids: the request names no company, so the
\* Gateway answers for its active company; any failure yields zeros
get_last_alter_ids(ok) ==
    IF ok THEN GwAlterIds(ActiveCo) ELSE [master |-> 0, transaction |-> 0]

\* TallyService.get_company_info / _parse_company_info: the parsed fields
get_company_info(ok) ==
    IF ok THEN [company_name |-> ActiveCo, alterid |-> GwAlterIds(ActiveCo).master]
    ELSE [error |-> TRUE]

\* dict.get(key, default)
DictGet(d, key, default) == IF key \in DOMAIN d THEN d[key] ELSE default

\* an extraction that returns the rows of the Gateway although it failed
extract_table_data_keeps(t, last, ok) ==
    {r \in GwRows(t, Target) : last > 0 => r.alt > last}

\* SyncService._extract_table_data: rows decoded from the Gateway's answer for
\* table t (with the filter $AlterID > last when last > 0); a failed request
\* or decode is swallowed and yields no rows
extract_table_data(t, last, ok) ==
    IF ok THEN {r \in GwRows(t, Target) : last > 0 => r.alt > last} ELSE {}

----------------------------------------------------------------------------
(* DatabaseService *)

\* row of a replicated table: what bulk_insert / _upsert_rows write
Stamp(rows, company) == {[guid |-> r.guid, alt |-> r.alt, co |-> company] : r \in rows}
Unstamp(rows) == {[guid |-> r.guid, alt |-> r.alt] : r \in rows}

\* rows of company c in a table
RowsOf(rows, c) == {r \in rows : r.co = c}

\* DatabaseService.truncate_table: company-scoped when a company is given
truncate_table(rows, company) ==
    IF company # "" THEN {r \in rows : r.co # company} ELSE {}

\* DatabaseService.truncate_all_tables: every table of ALL_TABLES; a failing
\* table is logged and skipped
truncate_all_tables(s, company, failT) ==
    [t \in Tables |-> IF t \in Range(ALL_TABLES) /\ t # failT
                      THEN truncate_table(s[t], company) ELSE s[t]]

\* INSERT into a table whose primary key is the guid fails on a duplicate
PkConflict(t, rows, new) ==
    IsPrimary(t) /\ \E r \in new : \E o \in rows : o.guid = r.guid

\* DatabaseService.update_company_config: update-or-insert keyed by company name
update_company_config(c, name, lm, lt) ==
    [c EXCEPT ![name] = IF c[name] = NoRow
                        THEN [lm |-> lm, lt |-> lt, cnt |-> 1]
                        ELSE [lm |-> lm, lt |-> lt, cnt |-> c[name].cnt + 1]]

CcNames == Companies \cup {"Unknown"}

\* DatabaseService.bulk_insert: plain INSERT of the stamped rows, one commit
\* at the end.  A failing write (or a duplicate primary key) raises; the rows
\* written before it stay in the connection and are committed by the next
\* statement, so any strict subset of the rows may remain.
BulkInsertFails(t, rows, new, f) == f = "db" \/ PkConflict(t, rows, new)
BulkInsertResults(t, rows, new, f) ==
    IF BulkInsertFails(t, rows, new, f)
    THEN {rows \cup part : part \in {q \in SUBSET new : q # new /\ ~PkConflict(t, rows, q)}}
    ELSE {rows \cup new}

----------------------------------------------------------------------------
(* SyncService: helpers *)

\* SyncService._update_config_table: DELETE FROM config, company name,
\* Gateway alter ids, update_company_config, INSERT of the config values.
\* f names what fails: the Gateway ("gw": no company info, alter ids 0), the
\* DELETE ("del": nothing is written), update_company_config ("cc").
update_config_table(f) ==
    IF f = "del" THEN [cc |-> cc, kv |-> kv]
    ELSE LET info == get_company_info(f # "gw")
             name == IF curCo # "" THEN curCo
                     ELSE DictGet(info, "company_name", "Unknown")
             ids  == get_last_alter_ids(f # "gw")
         IN  [cc |-> IF f = "cc" THEN cc
                     ELSE update_company_config(cc, name, ids.master, ids.transaction),
              kv |-> [lm |-> ids.master, lt |-> ids.transaction]]

\* failure points of _update_config_table: the Gateway, the DELETE on config,
\* the write to company_config
ConfigFaults == {"gw", "del", "cc"}

\* locals of an invocation
LocInit == [kind |-> "none", par |-> FALSE, phase |-> "none", idx |-> 0,
            fetched |-> <<>>, lastM |-> 0, lastT |-> 0,
            mch |-> FALSE, tch |-> FALSE, post |-> FALSE, clr |-> FALSE]

\* history of an invocation (wfail: a write of replicated rows failed; xf:
\* the tables whose extraction failed)
HstInit == [term |-> "none", probe |-> "none", trunc |-> FALSE, co |-> "",
            ccHit |-> FALSE, alt0 |-> 0, sid |-> 0, hit |-> {},
            dec |-> [t \in Tables |-> {}], afail |-> FALSE,
            wfail |-> FALSE, xf |-> {}]

\* the _company values whose rows differ between two contents of the store
Stamps == Companies \cup {""}
Touched(s1, s2) == {c \in Stamps : \E x \in Tables : RowsOf(s1[x], c) # RowsOf(s2[x], c)}

\* a phase that works on the tables of the other phase
PhaseTables_swapped(l) ==
    IF l.phase = "master" THEN get_transaction_tables ELSE get_master_tables

\* tables of the phase an invocation is in
PhaseTables(l) == IF l.phase = "master" THEN get_master_tables ELSE get_transaction_tables

----------------------------------------------------------------------------
(* RetryService and CircuitBreaker (retry_service.py): the state *)

\* config.circuit_breaker and config.retry as config.yaml sets them: small
\* values (the defaults are 5 failures, 60 s, 3 attempts, 5 s)
failure_threshold == 2
recovery_timeout == 10
max_attempts == 2
initial_delay == 5

\* fixed in the code: the default of CircuitBreaker.__init__, which
\* get_circuit_breaker never overrides, and the defaults of RetryConfig
half_open_max_calls == 3
backoff_multiplier == 2
max_delay == 60

CLOSED == "closed"
OPEN == "open"
HALF_OPEN == "half_open"

\* concurrent invocations of execute_with_retry on one service name
Tasks == 1..4

VARIABLES
    cb,      \* the CircuitBreaker of the service name
    now,     \* datetime.now(), in seconds
    task,    \* per task: where its execute_with_retry stands
    calls,   \* invocations of execute_with_retry still to come
    rh       \* record of what the breaker was told since it last changed

rvars == <<cb, now, task, calls, rh>>

None == -1

\* CircuitBreaker.__init__
CircuitBreakerInit ==
    [state |-> CLOSED, failure_count |-> 0, success_count |-> 0,
     last_failure_time |-> None, half_open_calls |-> 0]

TaskInit == [pc |-> "idle", attempt |-> 0, delay |-> 0, wake |-> 0]

RhInit == [streak |-> 0, probes |-> 0, wins |-> 0, prev |-> "none", opened |-> None]

RetryInit ==
    /\ cb = CircuitBreakerInit
    /\ now = 0
    /\ task = [k \in Tasks |-> TaskInit]
    /\ calls = MaxCalls
    /\ rh = RhInit

----------------------------------------------------------------------------
(* The retry decorator around TallyService.send_xml: the state *)

\* @retry(max_attempts=3, initial_delay=2.0, exceptions=(httpx.RequestError,
\* httpx.TimeoutException)) on send_xml
send_max_attempts == 3
send_initial_delay == 2

\* kinds of failure of a wrapped operation: "listed" is a kind the wrapper
\* is told to retry (httpx.RequestError, httpx.TimeoutException), "other"
\* any other exception (httpx.HTTPStatusError of raise_for_status, ...)
Kinds == {"listed", "other"}

VARIABLES
    dec,     \* where the decorated send_xml call stands
    sends,   \* send_xml calls still to come
    sh       \* record of the sends and of the attempts of both wrappers

wvars == <<dec, sends, sh>>

DecInit == [pc |-> "idle", attempt |-> 0, delay |-> 0, wake |-> 0]

\* fails: send_xml calls that failed in a row; last: time of the last such
\* failure; dev, eev: how the latest attempt under the decorator and under
\* execute_with_retry ended
ShInit == [fails |-> 0, last |-> None, dev |-> "none", eev |-> "none"]

WrapInit ==
    /\ dec = DecInit
    /\ sends = MaxSends
    /\ sh = ShInit

----------------------------------------------------------------------------
(* SyncQueueService (sync_queue_service.py): the state *)

\* QueueItemStatus; the other values are those of SyncStatus
PENDING == "pending"

\* the lists of companies given to add_companies
CompanyLists == {<<"A">>, <<"A", "B">>}

VARIABLES
    queue,            \* SyncQueueService.queue: the items, in order
    current_index,    \* SyncQueueService.current_index
    is_processing,    \* SyncQueueService.is_processing
    completed_count,  \* SyncQueueService.completed_count
    failed_count,     \* SyncQueueService.failed_count
    total_companies,  \* SyncQueueService.total_companies
    worker,           \* the _process_queue tasks, one per caller of the Synchronizer
    qgen,             \* which list object self.queue is (add_companies makes a new one)
    adds,             \* add_companies calls still to come
    starts,           \* start_processing calls still to come
    wrote             \* companies whose rows changed since the queue was filled

qvars == <<queue, current_index, is_processing, completed_count, failed_count,
           total_companies, worker, qgen, adds, starts, wrote>>

\* a _process_queue task: where it stands, the item it holds (list object
\* and index), the status its sync returned, and whether cancel_queue was
\* accepted while it was alive
WorkerInit == [pc |-> "dead", gen |-> 0, idx |-> 0, res |-> "none", cancelled |-> FALSE]

QueueInit ==
    /\ queue = <<>>
    /\ current_index = -1
    /\ is_processing = FALSE
    /\ completed_count = 0
    /\ failed_count = 0
    /\ total_companies = 0
    /\ worker = [t \in Callers |-> WorkerInit]
    /\ qgen = 0
    /\ adds = MaxAdds
    /\ starts = MaxStarts
    /\ wrote = {}

----------------------------------------------------------------------------
(* SyncService.get_status: the published status of a session, the state.
   The store and the Gateway are left out of this part: a table yields a
   number of rows or fails. *)

VARIABLES
    pub,     \* status, progress, current_table, rows_processed,
             \* _cancel_requested, current_company and config.tally.company
    run,     \* where each caller's full_sync / incremental_sync stands
    runs,    \* admissions still to come
    rejs     \* calls during a running session still to come

svars == <<pub, run, runs, rejs>>
allvars == <<vars, rvars, wvars, qvars, svars>>

\* _reset_status (with current_table as the position of the table among all
\* tables, 0 for '' and -1 for 'Fetching n tables...'), and the company
\* fields as constructed
reset_status(p) ==
    [p EXCEPT !.status = IDLE, !.progress = 0, !.current_table = 0,
              !.rows_processed = 0, !.cancel_requested = FALSE]

RunInit == [pc |-> "idle", kind |-> "none", par |-> FALSE, phase |-> "none", i |-> 0,
            mch |-> FALSE, tch |-> FALSE]

StatusInit ==
    /\ pub = [status |-> IDLE, progress |-> 0, current_table |-> 0, rows_processed |-> 0,
              cancel_requested |-> FALSE, current_company |-> "", company |-> ""]
    /\ run = [t \in Callers |-> RunInit]
    /\ runs = MaxRuns
    /\ rejs = MaxRejects

----------------------------------------------------------------------------
(* Initial state: a fresh store, the service idle, company "" configured *)

Init ==
    /\ specFile \in {"present", "missing"}
    /\ status = IDLE
    /\ cancelReq = FALSE
    /\ curCo = ""
    /\ cfgCo = ""
    /\ pc = [t \in Callers |-> "idle"]
    /\ loc = [t \in Callers |-> LocInit]
    /\ store = [t \in Tables |-> {}]
    /\ delTbl = {}
    /\ cc = [n \in CcNames |-> NoRow]
    /\ kv = NoRow
    /\ audit = <<>>
    /\ deleted = {}
    /\ curSid = 0
    /\ nextSid = 1
    /\ sidecar = "absent"
    /\ gw = [t \in {M, V} |-> [n \in 1..MaxGuid |-> 1]]
    /\ gwAlt = [master |-> 1, transaction |-> 1]
    /\ changes = MaxChanges
    /\ faults = MaxFaults
    /\ syncs = MaxSyncs
    /\ hst = [t \in Callers |-> HstInit]
    /\ RetryInit
    /\ WrapInit
    /\ QueueInit
    /\ StatusInit

----------------------------------------------------------------------------
(* The environment: the Gateway's data changes, the operator cancels *)

AltKey(t) == IF t = M THEN "master" ELSE "transaction"

\* an object of company "A" is altered (or created) in Tally
GwAlter(t, n) ==
    /\ changes > 0
    /\ changes' = changes - 1
    /\ gwAlt' = [gwAlt EXCEPT ![AltKey(t)] = @ + 1]
    /\ gw' = [gw EXCEPT ![t][n] = gwAlt[AltKey(t)] + 1]
    /\ UNCHANGED <<specFile, status, cancelReq, curCo, cfgCo, pc, loc, store, delTbl,
                   cc, kv, audit, deleted, curSid, nextSid, sidecar, faults, syncs, hst>>

\* an object of company "A" is deleted in Tally
GwDelete(t, n) ==
    /\ changes > 0
    /\ changes' = changes - 1
    /\ gw[t][n] > 0
    /\ gw' = [gw EXCEPT ![t][n] = 0]
    /\ UNCHANGED <<specFile, status, cancelReq, curCo, cfgCo, pc, loc, store, delTbl,
                   cc, kv, audit, deleted, curSid, nextSid, sidecar, gwAlt, faults,
                   syncs, hst>>

\* SyncService.cancel
cancel ==
    /\ status = RUNNING
    /\ ~cancelReq
    /\ cancelReq' = TRUE
    /\ UNCHANGED <<specFile, status, curCo, cfgCo, pc, loc, store, delTbl, cc, kv,
                   audit, deleted, curSid, nextSid, sidecar, gw, gwAlt, changes, faults, syncs,
                   hst>>

----------------------------------------------------------------------------
(* SyncService.full_sync *)

\* an admission test that lets every call in
admitted_always == TRUE

\* the admission test of full_sync and incremental_sync
admitted == status # RUNNING

\* company whose Gateway data a session with current_company c replicates
TargetOf(c) == IF c = "" THEN ActiveCo ELSE c

\* the alter ids company_config holds for a company
LastAlterIds(c, name) ==
    IF c[name] = NoRow THEN NoRow ELSE [lm |-> c[name].lm, lt |-> c[name].lt]

\* a write replaced the alter ids company_config held for a company
AlterIdsReplaced(c1, c2, name) ==
    c1[name] # NoRow /\ LastAlterIds(c1, name) # LastAlterIds(c2, name)

\* admission of full_sync(company=c, parallel=p)
full_sync_call(t, c, p) ==
    /\ pc[t] = "idle"
    /\ syncs > 0
    /\ admitted
    /\ curCo' = (IF c # "" THEN c ELSE cfgCo)
    /\ cfgCo' = (IF c # "" THEN c ELSE cfgCo)
    /\ loc' = [loc EXCEPT ![t] = [LocInit EXCEPT !.kind = "full", !.par = p]]
    /\ hst' = [hst EXCEPT ![t] = [HstInit EXCEPT !.co = curCo',
                                                 !.alt0 = GwAlterIds(TargetOf(curCo')).master]]
    /\ status' = RUNNING
    /\ cancelReq' = FALSE
    /\ pc' = [pc EXCEPT ![t] = "connect"]
    /\ syncs' = syncs - 1
    /\ UNCHANGED <<specFile, store, delTbl, cc, kv, audit, deleted, curSid, nextSid,
                   sidecar, gw, gwAlt, changes, faults>>

\* full_sync called over HTTP with a company and the mode, or by the
\* scheduler with no arguments
full_sync_start(t) ==
    \E c \in (IF t = "sched" THEN {""} ELSE Companies),
       p \in (IF t = "sched" THEN {FALSE} ELSE BOOLEAN) : full_sync_call(t, c, p)

\* a call while a sync is running returns the error and touches nothing
rejected(t) ==
    /\ pc[t] = "idle"
    /\ ~admitted
    /\ UNCHANGED vars

\* connect, create_tables, _save_sync_history (and, for full_sync, the first
\* _save_sync_state); for incremental_sync also ensure_company_config_table.
\* A failure raises into the except clause: FAILED, end_session, disconnect.
connect(t) ==
    /\ pc[t] = "connect"
    /\ \E ok \in Outcomes :
          /\ faults' = Spend(ok)
          /\ IF ok
             THEN /\ pc' = [pc EXCEPT ![t] = IF loc[t].kind = "full" THEN "probe" ELSE "last"]
                  /\ sidecar' = (IF loc[t].kind = "full" THEN "running" ELSE sidecar)
                  /\ UNCHANGED <<status, curSid, hst>>
             ELSE /\ pc' = [pc EXCEPT ![t] = "finish"]
                  /\ status' = FAILED
                  /\ UNCHANGED curSid
                  /\ hst' = [hst EXCEPT ![t].term = FAILED]
                  /\ UNCHANGED sidecar
    /\ specFile' = (IF loc[t].kind = "full" THEN specFile ELSE reload_config)
    /\ UNCHANGED <<cancelReq, curCo, cfgCo, loc, store, delTbl, cc, kv, audit,
                   deleted, nextSid, gw, gwAlt, changes, syncs>>

\* a probe test that lets an empty answer pass
probe_passes_always(test_rows) == TRUE

\* the probe test: `if not test_rows` aborts
probe_passes(test_rows) == test_rows # {}

\* the safety probe: extract the first master table, abort when it is empty;
\* with no master table spec there is nothing to probe
full_probe(t) ==
    /\ pc[t] = "probe"
    /\ \E ok \in (IF get_master_tables = <<>> THEN {TRUE} ELSE Outcomes) :
          LET test_rows == IF get_master_tables = <<>> THEN {}
                           ELSE extract_table_data(get_master_tables[1], 0, ok)
          IN  /\ faults' = Spend(ok)
              /\ IF get_master_tables = <<>>
                 THEN /\ pc' = [pc EXCEPT ![t] = "trunc"]
                      /\ hst' = [hst EXCEPT ![t].probe = "skipped"]
                      /\ UNCHANGED status
                 ELSE IF ~probe_passes(test_rows)
                 THEN /\ pc' = [pc EXCEPT ![t] = "finish"]
                      /\ status' = FAILED
                      /\ hst' = [hst EXCEPT ![t].probe = IF test_rows = {} THEN "empty" ELSE "rows",
                                            ![t].term = FAILED]
                 ELSE /\ pc' = [pc EXCEPT ![t] = "trunc"]
                      /\ hst' = [hst EXCEPT ![t].probe = IF test_rows = {} THEN "empty" ELSE "rows"]
                      /\ UNCHANGED status
    /\ UNCHANGED <<specFile, cancelReq, curCo, cfgCo, loc, store, delTbl, cc, kv, audit,
                   deleted, curSid, nextSid, sidecar, gw, gwAlt, changes, syncs>>

\* truncate_all_tables(company = current_company)
full_truncate(t) ==
    /\ pc[t] = "trunc"
    /\ \E failT \in FaultChoices(Tables) :
          /\ faults' = SpendAt(failT)
          /\ store' = truncate_all_tables(store, curCo, failT)
    /\ hst' = [hst EXCEPT ![t].trunc = TRUE, ![t].hit = @ \cup Touched(store, store')]
    /\ pc' = [pc EXCEPT ![t] = "cfg1"]
    /\ UNCHANGED <<specFile, status, cancelReq, curCo, cfgCo, loc, delTbl, cc, kv, audit,
                   deleted, curSid, nextSid, sidecar, gw, gwAlt, changes, syncs>>

\* _update_config_table BEFORE the data sync (both kinds of sync)
update_config_pre(t) ==
    /\ pc[t] = "cfg1"
    /\ \E f \in FaultChoices(ConfigFaults) :
          /\ faults' = SpendAt(f)
          /\ cc' = update_config_table(f).cc
          /\ kv' = update_config_table(f).kv
    /\ IF loc[t].kind = "full"
       THEN /\ pc' = [pc EXCEPT ![t] = IF loc[t].par /\ get_master_tables # <<>>
                                        THEN "fetch" ELSE "table"]
            /\ loc' = [loc EXCEPT ![t].phase = "master", ![t].idx = 1]
       ELSE /\ pc' = [pc EXCEPT ![t] = "cur"]
            /\ UNCHANGED loc
    /\ hst' = [hst EXCEPT ![t].ccHit = @ \/ AlterIdsReplaced(cc, cc', TargetOf(hst[t].co))]
    /\ sidecar' = (IF loc[t].kind = "full" THEN "running" ELSE sidecar)
    /\ UNCHANGED <<specFile, status, cancelReq, curCo, cfgCo, store, delTbl, audit,
                   deleted, curSid, nextSid, gw, gwAlt, changes, syncs>>

\* failure points of a table step: the Gateway request, and the store write
\* when there are rows to write
TableFaults(rows) == {"gw"} \cup (IF rows # {} THEN {"db"} ELSE {})

\* one table of _sync_tables_sequential / the sequential branch of
\* _sync_transaction_data: extract, bulk_insert; any exception is logged and
\* the loop goes on
full_sync_table(t) ==
    LET l == loc[t]
        tbls == PhaseTables(l)
    IN  /\ pc[t] = "table"
        /\ ~l.par
        /\ ~cancelReq
        /\ l.idx <= Len(tbls)
        /\ \E f \in FaultChoices(TableFaults(extract_table_data(tbls[l.idx], 0, TRUE))) :
              LET tn == tbls[l.idx]
                  rows == extract_table_data(tn, 0, f # "gw")
              IN  /\ faults' = SpendAt(f)
                  /\ \E res \in BulkInsertResults(tn, store[tn], Stamp(rows, curCo), f) :
                        store' = [store EXCEPT ![tn] = res]
                  /\ hst' = [hst EXCEPT ![t].dec[tn] = rows,
                                        ![t].hit = @ \cup Touched(store, store'),
                                        ![t].wfail = @ \/ f = "db",
                                        ![t].xf = IF f = "gw" THEN @ \cup {tn} ELSE @]
        /\ loc' = [loc EXCEPT ![t].idx = @ + 1]
        /\ UNCHANGED <<specFile, status, cancelReq, curCo, cfgCo, pc, delTbl, cc, kv,
                       audit, deleted, curSid, nextSid, sidecar, gw, gwAlt, changes, syncs>>

\* _sync_tables_parallel, fetch_table: one of the gathered requests answers
full_fetch_table(t) ==
    LET l == loc[t]
        tbls == PhaseTables(l)
    IN  /\ pc[t] = "fetch"
        /\ \E ok \in Outcomes :
              LET rows == extract_table_data(tbls[l.idx], 0, ok)
              IN  /\ faults' = Spend(ok)
                  /\ loc' = [loc EXCEPT ![t].fetched = Append(@, rows),
                                        ![t].idx = IF l.idx = Len(tbls) THEN 1 ELSE @ + 1]
                  /\ hst' = [hst EXCEPT ![t].dec[tbls[l.idx]] = rows,
                                        ![t].xf = IF ok THEN @ ELSE @ \cup {tbls[l.idx]}]
        /\ pc' = [pc EXCEPT ![t] = IF l.idx = Len(tbls) THEN "table" ELSE "fetch"]
        /\ UNCHANGED <<specFile, status, cancelReq, curCo, cfgCo, store, delTbl, cc, kv,
                       audit, deleted, curSid, nextSid, sidecar, gw, gwAlt, changes, syncs>>

\* _sync_tables_parallel, the insert loop: bulk_insert is not guarded, its
\* exception ends the session as FAILED
full_insert_table(t) ==
    LET l == loc[t]
        tbls == PhaseTables(l)
    IN  /\ pc[t] = "table"
        /\ l.par
        /\ ~cancelReq
        /\ l.idx <= Len(tbls)
        /\ \E f \in FaultChoices(IF l.fetched[l.idx] # {} THEN {"db"} ELSE {}) :
              LET tn == tbls[l.idx]
                  new == Stamp(l.fetched[l.idx], curCo)
              IN  /\ faults' = SpendAt(f)
                  /\ \E res \in BulkInsertResults(tn, store[tn], new, f) :
                        store' = [store EXCEPT ![tn] = res]
                  /\ IF BulkInsertFails(tn, store[tn], new, f)
                     THEN /\ status' = FAILED
                          /\ hst' = [hst EXCEPT ![t].term = FAILED,
                                                ![t].hit = @ \cup Touched(store, store'),
                                                ![t].wfail = @ \/ f = "db"]
                          /\ pc' = [pc EXCEPT ![t] = "finish"]
                          /\ UNCHANGED loc
                     ELSE /\ loc' = [loc EXCEPT ![t].idx = @ + 1]
                          /\ hst' = [hst EXCEPT ![t].hit = @ \cup Touched(store, store')]
                          /\ UNCHANGED <<status, pc>>
        /\ UNCHANGED <<specFile, cancelReq, curCo, cfgCo, delTbl, cc, kv, audit, deleted,
                       curSid, nextSid, sidecar, gw, gwAlt, changes, syncs>>

\* the end of a phase of full_sync: the cancel checks, the switch from master
\* to transaction data, COMPLETED after the transaction data
full_phase_end(t) ==
    LET l == loc[t]
    IN  /\ pc[t] = "table"
        /\ cancelReq \/ l.idx > Len(PhaseTables(l))
        /\ IF cancelReq
           THEN /\ status' = CANCELLED
                /\ hst' = [hst EXCEPT ![t].term = CANCELLED]
                /\ loc' = [loc EXCEPT ![t].clr = (l.phase = "transaction")]
                /\ pc' = [pc EXCEPT ![t] = "finish"]
           ELSE IF l.phase = "master"
           THEN /\ loc' = [loc EXCEPT ![t].phase = "transaction", ![t].idx = 1,
                                      ![t].fetched = <<>>]
                /\ pc' = [pc EXCEPT ![t] = IF l.par /\ get_transaction_tables # <<>>
                                            THEN "fetch" ELSE "table"]
                /\ UNCHANGED <<status, hst>>
           ELSE /\ status' = COMPLETED
                /\ hst' = [hst EXCEPT ![t].term = COMPLETED]
                /\ pc' = [pc EXCEPT ![t] = "finish"]
                /\ loc' = [loc EXCEPT ![t].post = TRUE, ![t].clr = TRUE]
        /\ sidecar' = (IF ~cancelReq /\ l.phase = "master" THEN "running" ELSE sidecar)
        /\ UNCHANGED <<specFile, cancelReq, curCo, cfgCo, store, delTbl, cc, kv, audit,
                       deleted, curSid, nextSid, gw, gwAlt, changes, faults, syncs>>

\* the tail of an invocation: after COMPLETED the second _update_config_table;
\* then _update_sync_history, _clear_sync_state where the path has it, for
\* incremental_sync the end_session of the finally clause,
\* database_service.disconnect; the call returns
finish(t) ==
    /\ pc[t] = "finish"
    /\ \E f \in (IF loc[t].post THEN FaultChoices(ConfigFaults) ELSE {"ok"}) :
          /\ faults' = SpendAt(f)
          /\ cc' = (IF loc[t].post THEN update_config_table(f).cc ELSE cc)
          /\ kv' = (IF loc[t].post THEN update_config_table(f).kv ELSE kv)
    /\ sidecar' = (IF loc[t].clr THEN "absent" ELSE sidecar)
    /\ curSid' = (IF loc[t].kind = "full" THEN curSid ELSE 0)
    /\ pc' = [pc EXCEPT ![t] = "idle"]
    /\ loc' = [loc EXCEPT ![t] = LocInit]
    /\ hst' = [hst EXCEPT ![t] = HstInit]
    /\ UNCHANGED <<specFile, status, cancelReq, curCo, cfgCo, store, delTbl, audit,
                   deleted, nextSid, gw, gwAlt, changes, syncs>>

\* the process is restarted while no call is in progress: the service and the
\* configuration are constructed anew, the store and the sidecar file remain
restart ==
    /\ \A t \in Callers : pc[t] = "idle"
    /\ status' = IDLE
    /\ cancelReq' = FALSE
    /\ curCo' = ""
    /\ cfgCo' = ""
    /\ curSid' = 0
    /\ UNCHANGED <<specFile, pc, loc, store, delTbl, cc, kv, audit, deleted, nextSid,
                   sidecar, gw, gwAlt, changes, faults, syncs, hst>>

\* the process dies while a call is in progress and is started again: the
\* calls are gone, the service and the configuration are constructed anew;
\* what was committed to the store and the sidecar file remain
crash ==
    /\ \E t \in Callers : pc[t] # "idle"
    /\ status' = IDLE
    /\ cancelReq' = FALSE
    /\ curCo' = ""
    /\ cfgCo' = ""
    /\ curSid' = 0
    /\ pc' = [t \in Callers |-> "idle"]
    /\ loc' = [t \in Callers |-> LocInit]
    /\ hst' = [t \in Callers |-> HstInit]
    /\ UNCHANGED <<specFile, store, delTbl, cc, kv, audit, deleted, nextSid,
                   sidecar, gw, gwAlt, changes, faults, syncs>>

\* SyncService.get_incomplete_sync: the record of the sidecar file when its
\* status is running
get_incomplete_sync == IF sidecar = "running" THEN "running" ELSE "none"

\* SyncService.dismiss_incomplete_sync (POST /api/sync/incomplete/dismiss)
dismiss_incomplete_sync ==
    /\ sidecar = "running"
    /\ sidecar' = "absent"
    /\ UNCHANGED <<specFile, status, cancelReq, curCo, cfgCo, pc, loc, store, delTbl,
                   cc, kv, audit, deleted, curSid, nextSid, gw, gwAlt, changes, faults,
                   syncs, hst>>

----------------------------------------------------------------------------
(* AuditService *)

RECURSIVE SeqOf(_)
\* the elements of a finite set in the order a query returns them
SeqOf(S) == IF S = {} THEN <<>> ELSE LET x == CHOOSE y \in S : TRUE
                                      IN  <<x>> \o SeqOf(S \ {x})

\* columns of a replicated row
Columns == {"guid", "alt", "co"}

\* AuditService._log_action: the row written to audit_log
AuditEvent(action, tn, guid, old, new, changed) ==
    [sid |-> curSid, act |-> action, tbl |-> tn, guid |-> guid, co |-> curCo,
     old |-> old, new |-> new, chg |-> changed]

\* AuditService.log_insert
log_insert(tn, row) == AuditEvent("INSERT", tn, row.guid, NoRow, row, {})

\* AuditService.log_update: the changed fields are computed, the event is
\* written whatever they are
log_update(tn, old, row) ==
    AuditEvent("UPDATE", tn, row.guid, old, row, {c \in Columns : old[c] # row[c]})

\* AuditService.log_delete, first write: the DELETE event
log_delete(tn, old) == AuditEvent("DELETE", tn, old.guid, old, NoRow, {})

\* AuditService._store_deleted_record: the row written to deleted_records
store_deleted_record(tn, old) ==
    [tbl |-> tn, guid |-> old.guid, sid |-> curSid, co |-> curCo, data |-> old]

----------------------------------------------------------------------------
(* SyncService.incremental_sync *)

\* admission of incremental_sync and audit_service.start_session
incremental_sync_start(t) ==
    /\ pc[t] = "idle"
    /\ syncs > 0
    /\ admitted
    /\ \E c \in (IF t = "sched" THEN {""} ELSE Companies) :
          /\ curCo' = (IF c # "" THEN c ELSE cfgCo)
          /\ cfgCo' = (IF c # "" THEN c ELSE cfgCo)
          /\ hst' = [hst EXCEPT ![t] = [HstInit EXCEPT !.co = curCo',
                                                       !.alt0 = GwAlterIds(TargetOf(curCo')).master,
                                                       !.sid = nextSid]]
    /\ loc' = [loc EXCEPT ![t] = [LocInit EXCEPT !.kind = "incremental"]]
    /\ status' = RUNNING
    /\ cancelReq' = FALSE
    /\ curSid' = nextSid
    /\ nextSid' = nextSid + 1
    /\ pc' = [pc EXCEPT ![t] = "connect"]
    /\ syncs' = syncs - 1
    /\ UNCHANGED <<specFile, store, delTbl, cc, kv, audit, deleted, sidecar, gw, gwAlt, changes,
                   faults>>

\* _get_last_alterid / _get_last_alterid_transaction: the company's row of
\* company_config, else the config table, else 0
get_last_alterid(key) ==
    IF curCo # "" /\ cc[curCo] # NoRow THEN cc[curCo][key]
    ELSE IF kv # NoRow THEN kv[key] ELSE 0

inc_last(t) ==
    /\ pc[t] = "last"
    /\ loc' = [loc EXCEPT ![t].lastM = get_last_alterid("lm"),
                          ![t].lastT = get_last_alterid("lt")]
    /\ pc' = [pc EXCEPT ![t] = "cfg1"]
    /\ UNCHANGED <<specFile, status, cancelReq, curCo, cfgCo, store, delTbl, cc, kv,
                   audit, deleted, curSid, nextSid, sidecar, gw, gwAlt, changes, faults, syncs,
                   hst>>

\* _get_current_alterid_from_tally: reads the key "alter_id" of the company info
get_current_alterid_from_tally(ok) == DictGet(get_company_info(ok), "alter_id", 0)

\* the change test of incremental_sync: nothing changed -> COMPLETED at once
inc_current(t) ==
    /\ pc[t] = "cur"
    /\ \E ok \in Outcomes :
          LET cur == get_current_alterid_from_tally(ok)
              mch == cur # loc[t].lastM
              tch == cur # loc[t].lastT
          IN  /\ faults' = Spend(ok)
              /\ loc' = [loc EXCEPT ![t].mch = mch, ![t].tch = tch, ![t].idx = 1,
                                    ![t].phase = IF mch THEN "master" ELSE "transaction"]
              /\ IF ~mch /\ ~tch
                 THEN /\ status' = COMPLETED
                      /\ hst' = [hst EXCEPT ![t].term = COMPLETED]
                      /\ pc' = [pc EXCEPT ![t] = "finish"]
                 ELSE /\ pc' = [pc EXCEPT ![t] = "diff"]
                      /\ UNCHANGED <<status, hst>>
    /\ UNCHANGED <<specFile, cancelReq, curCo, cfgCo, store, delTbl, cc, kv, audit,
                   deleted, curSid, nextSid, sidecar, gw, gwAlt, changes, syncs>>

\* the Primary tables of a phase, in declaration order
PrimaryTables(l) == SelectSeq(PhaseTables(l), IsPrimary)

\* _process_diff_for_primary_tables, steps 1-4 for one table: stage in _delete
\* the guids of the company's rows that the Gateway no longer lists or lists
\* with another alter id.  An exception skips the table.
inc_diff_stage(t) ==
    LET l == loc[t]
        tbls == PrimaryTables(l)
    IN  /\ pc[t] = "diff"
        /\ l.idx <= Len(tbls)
        /\ \E f \in FaultChoices({"gw", "db"}) :
              LET tn == tbls[l.idx]
                  diff == extract_table_data(tn, 0, f # "gw")
                  mine == RowsOf(store[tn], curCo)
                  gone == {o \in mine : \A d \in diff : d.guid # o.guid}
                  modified == {o \in mine : \E d \in diff : d.guid = o.guid /\ d.alt # o.alt}
                  staged == {o.guid : o \in gone \cup modified}
              IN  /\ faults' = SpendAt(f)
                  /\ IF f = "db"
                     THEN /\ UNCHANGED delTbl
                          /\ loc' = [loc EXCEPT ![t].idx = @ + 1]
                          /\ UNCHANGED pc
                     ELSE /\ delTbl' = staged
                          /\ IF staged = {}
                             THEN /\ loc' = [loc EXCEPT ![t].idx = @ + 1]
                                  /\ UNCHANGED pc
                             ELSE /\ pc' = [pc EXCEPT ![t] = "del"]
                                  /\ UNCHANGED loc
        /\ UNCHANGED <<specFile, status, cancelReq, curCo, cfgCo, store, cc, kv, audit,
                       deleted, curSid, nextSid, sidecar, gw, gwAlt, changes, syncs, hst>>

\* AuditService._log_action / _store_deleted_record: a failing write of the
\* recorder is caught and logged there; any other failing write raises to
\* the try block of the table
raises_always(f) == f # "ok"
raises_to_caller(f) == f \notin {"ok", "audit", "delrec"}

\* _process_diff_for_primary_tables, steps 5-6 for one table: log_delete for
\* every staged row (two independent, guarded writes each), the DELETE on the
\* table, then the cascade DELETEs.  A failing DELETE skips the rest.
inc_diff_delete(t) ==
    LET l == loc[t]
        tn == PrimaryTables(l)[l.idx]
        records == {o \in RowsOf(store[tn], curCo) : o.guid \in delTbl}
        points == (IF records # {} THEN {"audit", "delrec"} ELSE {})
                  \cup {"delete"}
                  \cup (IF cascade_delete(tn) # {} THEN {"cascade"} ELSE {})
    IN  /\ pc[t] = "del"
        /\ \E f \in FaultChoices(points) :
           \E bad \in (IF f \in {"audit", "delrec"} THEN records ELSE {NoRow}) :
              /\ faults' = SpendAt(f)
              /\ audit' = audit \o [i \in 1..Cardinality(records \ (IF f = "audit" THEN {bad} ELSE {}))
                                     |-> log_delete(tn, SeqOf(records \ (IF f = "audit" THEN {bad} ELSE {}))[i])]
              /\ deleted' = deleted \cup {store_deleted_record(tn, o) :
                                            o \in records \ (IF f = "delrec" THEN {bad} ELSE {})}
              /\ store' = [x \in Tables |->
                             IF f # "cascade" /\ raises_to_caller(f) THEN store[x]
                             ELSE IF x = tn THEN store[x] \ records
                             ELSE IF x \in cascade_delete(tn) /\ f # "cascade"
                                  THEN {o \in store[x] : o.guid \notin delTbl}
                                  ELSE store[x]]
              /\ hst' = [hst EXCEPT ![t].hit = @ \cup Touched(store, store'),
                                     ![t].afail = @ \/ f \in {"audit", "delrec"}]
        /\ loc' = [loc EXCEPT ![t].idx = @ + 1]
        /\ pc' = [pc EXCEPT ![t] = "diff"]
        /\ UNCHANGED <<specFile, status, cancelReq, curCo, cfgCo, delTbl, cc, kv, curSid,
                       nextSid, sidecar, gw, gwAlt, changes, syncs>>

\* the end of a diff pass: the transaction pass after the master pass, then
\* the cancel check before the import
inc_diff_end(t) ==
    LET l == loc[t]
    IN  /\ pc[t] = "diff"
        /\ l.idx > Len(PrimaryTables(l))
        /\ IF l.phase = "master" /\ l.tch
           THEN /\ loc' = [loc EXCEPT ![t].phase = "transaction", ![t].idx = 1]
                /\ UNCHANGED <<status, hst, pc>>
           ELSE IF cancelReq
           THEN /\ status' = CANCELLED
                /\ hst' = [hst EXCEPT ![t].term = CANCELLED]
                /\ pc' = [pc EXCEPT ![t] = "finish"]
                /\ UNCHANGED loc
           ELSE /\ loc' = [loc EXCEPT ![t].phase = IF l.mch THEN "master" ELSE "transaction",
                                      ![t].idx = 1]
                /\ pc' = [pc EXCEPT ![t] = "imp"]
                /\ UNCHANGED <<status, hst>>
        /\ UNCHANGED <<specFile, cancelReq, curCo, cfgCo, store, delTbl, cc, kv, audit,
                       deleted, curSid, nextSid, sidecar, gw, gwAlt, changes, faults, syncs>>

\* SyncService._upsert_rows: INSERT OR REPLACE, row by row; on a table keyed
\* by guid the new row replaces the old one, elsewhere it is added
upsert_rows(tn, rows, new) ==
    IF IsPrimary(tn) THEN {o \in rows : \A r \in new : r.guid # o.guid} \cup new
    ELSE rows \cup new

\* the audit event of an imported row: UPDATE when the company already has a
\* row with that guid, INSERT otherwise
ImportEvent(tn, row) ==
    LET existing == {o \in RowsOf(store[tn], curCo) : o.guid = row.guid}
    IN  IF existing # {} THEN log_update(tn, CHOOSE o \in existing : TRUE, row)
        ELSE log_insert(tn, row)

\* one table of _import_changed_records: extract with the filter
\* $AlterID > last, stamp the rows, audit each, upsert.  An exception is
\* logged and the loop goes on; the rows upserted before it stay.
inc_import_table(t) ==
    LET l == loc[t]
        tbls == PhaseTables(l)
        last == IF l.phase = "master" THEN l.lastM ELSE l.lastT
    IN  /\ pc[t] = "imp"
        /\ ~cancelReq
        /\ l.idx <= Len(tbls)
        /\ \E f \in FaultChoices({"gw"} \cup
                       (IF extract_table_data(tbls[l.idx], last, TRUE) # {}
                        THEN {"audit", "db"} ELSE {})) :
              LET tn == tbls[l.idx]
                  rows == Stamp(extract_table_data(tn, last, f # "gw"), curCo)
              IN  \E bad \in (IF f = "audit" THEN rows ELSE {NoRow}) :
                  \E done \in (IF f = "db" THEN SUBSET rows \ {rows} ELSE {rows}) :
                      LET logged == SeqOf(rows \ {bad})
                      IN  /\ faults' = SpendAt(f)
                          /\ audit' = audit \o [i \in 1..Len(logged) |-> ImportEvent(tn, logged[i])]
                          /\ store' = [store EXCEPT ![tn] =
                                         IF f = "audit" /\ raises_to_caller(f) THEN @
                                         ELSE upsert_rows(tn, @, done)]
                          /\ hst' = [hst EXCEPT ![t].hit = @ \cup Touched(store, store'),
                                                 ![t].afail = @ \/ f = "audit",
                                                 ![t].wfail = @ \/ f = "db",
                                                 ![t].xf = IF f = "gw" THEN @ \cup {tn} ELSE @]
        /\ loc' = [loc EXCEPT ![t].idx = @ + 1]
        /\ UNCHANGED <<specFile, status, cancelReq, curCo, cfgCo, pc, delTbl, cc, kv,
                       deleted, curSid, nextSid, sidecar, gw, gwAlt, changes, syncs>>

\* the end of an import pass: the transaction pass after the master pass, the
\* cancel check, COMPLETED
inc_import_end(t) ==
    LET l == loc[t]
    IN  /\ pc[t] = "imp"
        /\ cancelReq \/ l.idx > Len(PhaseTables(l))
        /\ IF cancelReq
           THEN /\ status' = CANCELLED
                /\ hst' = [hst EXCEPT ![t].term = CANCELLED]
                /\ pc' = [pc EXCEPT ![t] = "finish"]
                /\ UNCHANGED loc
           ELSE IF l.phase = "master" /\ l.tch
           THEN /\ loc' = [loc EXCEPT ![t].phase = "transaction", ![t].idx = 1]
                /\ UNCHANGED <<status, hst, pc>>
           ELSE /\ status' = COMPLETED
                /\ hst' = [hst EXCEPT ![t].term = COMPLETED]
                /\ pc' = [pc EXCEPT ![t] = "finish"]
                /\ loc' = [loc EXCEPT ![t].post = TRUE]
        /\ UNCHANGED <<specFile, cancelReq, curCo, cfgCo, store, delTbl, cc, kv, audit,
                       deleted, curSid, nextSid, sidecar, gw, gwAlt, changes, faults, syncs>>

----------------------------------------------------------------------------
(* RetryService and CircuitBreaker: the operations *)

\* CircuitBreaker.can_execute at time t: the answer and the breaker after it
can_execute(c, t) ==
    IF c.state = CLOSED THEN [ok |-> TRUE, cb |-> c]
    ELSE IF c.state = OPEN
    THEN IF c.last_failure_time # None /\ t - c.last_failure_time >= recovery_timeout
         THEN [ok |-> TRUE, cb |-> [c EXCEPT !.state = HALF_OPEN, !.half_open_calls = 0]]
         ELSE [ok |-> FALSE, cb |-> c]
    ELSE [ok |-> c.half_open_calls < half_open_max_calls, cb |-> c]

\* CircuitBreaker.record_success
record_success_keeps(c) == c
record_success(c) ==
    IF c.state = HALF_OPEN
    THEN IF c.success_count + 1 >= half_open_max_calls
         THEN [c EXCEPT !.state = CLOSED, !.failure_count = 0, !.success_count = 0]
         ELSE [c EXCEPT !.success_count = @ + 1]
    ELSE [c EXCEPT !.failure_count = 0]

\* CircuitBreaker.record_failure at time t
record_failure_stays(c, t) ==
    LET d == [c EXCEPT !.failure_count = @ + 1, !.last_failure_time = t]
    IN  IF c.state # HALF_OPEN /\ d.failure_count >= failure_threshold
        THEN [d EXCEPT !.state = OPEN]
        ELSE d
record_failure(c, t) ==
    LET d == [c EXCEPT !.failure_count = @ + 1, !.last_failure_time = t]
    IN  IF c.state = HALF_OPEN THEN [d EXCEPT !.state = OPEN]
        ELSE IF d.failure_count >= failure_threshold THEN [d EXCEPT !.state = OPEN]
        ELSE d

\* the delay after the next failed attempt (config.retry.strategy is
\* "exponential")
Min(a, b) == IF a < b THEN a ELSE b
next_delay(d) == Min(d * backoff_multiplier, max_delay)

\* the record kept beside the breaker: failures in a row, calls admitted and
\* successes recorded since the breaker last became HALF_OPEN, the time at
\* which it last went to OPEN
RhAfter(c1, c2, admitted_call, success, failure) ==
    LET entered == c1.state # HALF_OPEN /\ c2.state = HALF_OPEN
    IN  [streak |-> IF failure THEN rh.streak + 1
                    ELSE IF success \/ (c1.state # CLOSED /\ c2.state = CLOSED) THEN 0
                    ELSE rh.streak,
         probes |-> IF c2.state # HALF_OPEN THEN 0
                    ELSE (IF entered THEN 0 ELSE rh.probes) + (IF admitted_call THEN 1 ELSE 0),
         wins |-> IF c2.state = HALF_OPEN /\ entered THEN 0
                  ELSE IF success /\ c1.state = HALF_OPEN THEN rh.wins + 1
                  ELSE IF c2.state = HALF_OPEN \/ c1.state = HALF_OPEN THEN rh.wins
                  ELSE 0,
         prev |-> IF c1.state # c2.state THEN c1.state ELSE rh.prev,
         opened |-> IF c2.state # OPEN THEN None
                    ELSE IF c1.state # OPEN THEN now ELSE rh.opened]

\* execute_with_retry up to the first call of func: the breaker is asked
\* once; a refusal raises, otherwise func is called (attempt 1).  A new
\* invocation takes the first free task.
execute_with_retry(k) ==
    /\ calls > 0
    /\ task[k].pc = "idle"
    /\ \A j \in Tasks : j < k => task[j].pc # "idle"
    /\ calls' = calls - 1
    /\ cb' = can_execute(cb, now).cb
    /\ task' = [task EXCEPT ![k] =
                   IF can_execute(cb, now).ok
                   THEN [pc |-> "func", attempt |-> 1, delay |-> initial_delay, wake |-> 0]
                   ELSE TaskInit]
    /\ rh' = RhAfter(cb, cb', can_execute(cb, now).ok, FALSE, FALSE)
    /\ UNCHANGED now

\* func returns: record_success, and the invocation returns
func_returns(k) ==
    /\ task[k].pc = "func"
    /\ cb' = record_success(cb)
    /\ task' = [task EXCEPT ![k] = TaskInit]
    /\ rh' = RhAfter(cb, cb', FALSE, TRUE, FALSE)
    /\ UNCHANGED <<now, calls>>

\* func raises: record_failure; the last attempt re-raises, an earlier one
\* sleeps for the delay and lengthens it
func_raises(k) ==
    /\ task[k].pc = "func"
    /\ cb' = record_failure(cb, now)
    /\ task' = [task EXCEPT ![k] =
                   IF task[k].attempt < max_attempts
                   THEN [@ EXCEPT !.pc = "sleep", !.wake = now + task[k].delay,
                                  !.delay = next_delay(@)]
                   ELSE TaskInit]
    /\ rh' = RhAfter(cb, cb', FALSE, FALSE, TRUE)
    /\ UNCHANGED <<now, calls>>

\* asyncio.sleep(delay) is over: the loop calls func again (next attempt)
retry(k) ==
    /\ task[k].pc = "sleep"
    /\ now >= task[k].wake
    /\ task' = [task EXCEPT ![k] = [@ EXCEPT !.pc = "func", !.attempt = @ + 1, !.wake = 0]]
    /\ UNCHANGED <<cb, now, calls, rh>>

\* time passes
Tick ==
    /\ now + TickSeconds <= MaxTime
    /\ now' = now + TickSeconds
    /\ UNCHANGED <<cb, task, calls, rh>>

----------------------------------------------------------------------------
(* The retry decorator around TallyService.send_xml: the operations *)

\* delay = min(delay * backoff_multiplier, max_delay) with the defaults of
\* the decorator
dec_next_delay(d) == Min(d * 2, 60)

\* a failure of this kind is caught by `except exceptions` of the decorator
dec_retries(e) == e = "listed"

\* send_xml is called: the decorator calls the function (attempt 1), which
\* posts the request to the Gateway
send_xml ==
    /\ sends > 0
    /\ dec.pc = "idle"
    /\ sends' = sends - 1
    /\ dec' = [pc |-> "func", attempt |-> 1, delay |-> send_initial_delay, wake |-> 0]
    /\ UNCHANGED sh

\* the Gateway answers: the decorator returns the decoded answer
post_returns ==
    /\ dec.pc = "func"
    /\ dec' = DecInit
    /\ sh' = [sh EXCEPT !.fails = 0, !.dev = "ok"]
    /\ UNCHANGED sends

\* the request fails with an exception of kind e: a listed kind is retried
\* after a sleep while attempts remain, and raised after the last attempt;
\* any other kind leaves the decorator at once
post_raises(e) ==
    /\ dec.pc = "func"
    /\ IF dec_retries(e) /\ dec.attempt < send_max_attempts
       THEN /\ dec' = [dec EXCEPT !.pc = "sleep", !.wake = now + dec.delay,
                                  !.delay = dec_next_delay(dec.delay)]
            /\ sh' = [sh EXCEPT !.dev = e]
       ELSE /\ dec' = DecInit
            /\ sh' = [sh EXCEPT !.fails = @ + 1, !.last = now, !.dev = e]
    /\ UNCHANGED sends

\* asyncio.sleep(delay) of the decorator is over: the next attempt
resend ==
    /\ dec.pc = "sleep"
    /\ now >= dec.wake
    /\ dec' = [dec EXCEPT !.pc = "func", !.attempt = @ + 1, !.wake = 0]
    /\ UNCHANGED <<sends, sh>>

----------------------------------------------------------------------------
(* SyncQueueService: the operations *)

\* no _process_queue task stands between the return of its sync and its
\* next suspension point (that stretch of code runs without interruption)
NoPending == \A t \in Callers : worker[t].pc # "returned"

\* add_companies(companies, "full"), accepted: a new list of pending items
add_companies(cs) ==
    /\ NoPending
    /\ adds > 0
    /\ ~is_processing
    /\ queue' = [i \in 1..Len(cs) |->
                    [company |-> cs[i], sync_type |-> "full", status |-> PENDING,
                     started |-> FALSE]]
    /\ current_index' = -1
    /\ completed_count' = 0
    /\ failed_count' = 0
    /\ total_companies' = Len(cs)
    /\ qgen' = qgen + 1
    /\ adds' = adds - 1
    /\ wrote' = {}
    /\ UNCHANGED <<is_processing, worker, starts>>

\* start_processing, accepted: the flag is set and a _process_queue task is
\* created, which runs later
start_processing(t) ==
    /\ NoPending
    /\ starts > 0
    /\ ~is_processing
    /\ queue # <<>>
    /\ worker[t].pc = "dead"
    /\ \A u \in Callers : worker[u].pc = "dead" => (t = "http" \/ u # "http")
    /\ is_processing' = TRUE
    /\ current_index' = 0
    /\ worker' = [worker EXCEPT ![t] = [WorkerInit EXCEPT !.pc = "ready"]]
    /\ starts' = starts - 1
    /\ UNCHANGED <<queue, completed_count, failed_count, total_companies, qgen, adds, wrote>>

\* the status _process_queue gives an item whose sync returned result r
ItemStatus(r) ==
    IF r = COMPLETED THEN COMPLETED ELSE IF r = CANCELLED THEN CANCELLED ELSE FAILED

\* item i (from 0) of list q gets status st and counts as started
SetItem(q, i, st) ==
    [q EXCEPT ![i + 1] = [@ EXCEPT !.status = st, !.started = TRUE]]

\* _process_queue from the creation of the task, or from the return of a
\* sync, to its next suspension point or its end: the returned result is
\* recorded on the item the task holds, the index advances, and the loop
\* goes on with the item at the index while is_processing is set. A sync
\* that is rejected returns at once, its item fails and the loop goes on;
\* an admitted one suspends the task inside full_sync.
process_queue(t) ==
    /\ worker[t].pc \in {"ready", "returned"}
    /\ LET w == worker[t]
           ret == w.pc = "returned"
           held == w.gen = qgen /\ w.idx < Len(queue)
           q1 == IF ret /\ held THEN SetItem(queue, w.idx, ItemStatus(w.res)) ELSE queue
           brk == ret /\ w.res = CANCELLED
           cc1 == completed_count + (IF ret /\ w.res = COMPLETED THEN 1 ELSE 0)
           fc1 == failed_count + (IF ret /\ ItemStatus(w.res) = FAILED THEN 1 ELSE 0)
           cur1 == IF ret /\ ~brk THEN current_index + 1 ELSE current_index
           go == ~brk /\ cur1 < Len(q1) /\ is_processing
       IN  IF ~go
           THEN /\ queue' = q1
                /\ current_index' = cur1
                /\ completed_count' = cc1
                /\ failed_count' = fc1
                /\ is_processing' = FALSE
                /\ worker' = [worker EXCEPT ![t] = WorkerInit]
                /\ UNCHANGED vars
           ELSE IF ~admitted
           THEN /\ queue' = [i \in 1..Len(q1) |->
                                IF i > cur1 THEN [q1[i] EXCEPT !.status = FAILED,
                                                               !.started = TRUE]
                                ELSE q1[i]]
                /\ current_index' = Len(q1)
                /\ completed_count' = cc1
                /\ failed_count' = fc1 + (Len(q1) - cur1)
                /\ is_processing' = FALSE
                /\ worker' = [worker EXCEPT ![t] = WorkerInit]
                /\ UNCHANGED vars
           ELSE /\ queue' = SetItem(q1, cur1, RUNNING)
                /\ current_index' = cur1
                /\ completed_count' = cc1
                /\ failed_count' = fc1
                /\ worker' = [worker EXCEPT ![t] =
                                 [w EXCEPT !.pc = "await", !.gen = qgen, !.idx = cur1,
                                           !.res = "none"]]
                /\ full_sync_call(t, q1[cur1 + 1].company, FALSE)
                /\ UNCHANGED is_processing
    /\ UNCHANGED <<total_companies, qgen, adds, starts, wrote>>

\* a step inside the sync a _process_queue task awaits
QueueKeeps ==
    /\ NoPending
    /\ wrote' = wrote \cup Touched(store, store')
    /\ UNCHANGED <<queue, current_index, is_processing, completed_count, failed_count,
                   total_companies, worker, qgen, adds, starts>>

\* the awaited sync returns get_status(): the task holds the status
sync_returns(t) ==
    /\ NoPending
    /\ finish(t)
    /\ worker' = [worker EXCEPT ![t] = [@ EXCEPT !.pc = "returned", !.res = status]]
    /\ UNCHANGED <<queue, current_index, is_processing, completed_count, failed_count,
                   total_companies, qgen, adds, starts, wrote>>

\* cancel_queue, accepted: sync_service.cancel(), the flag is cleared and
\* the items after the current one are marked cancelled
cancel_queue ==
    /\ NoPending
    /\ is_processing
    /\ cancelReq' = (IF status = RUNNING THEN TRUE ELSE cancelReq)
    /\ is_processing' = FALSE
    /\ queue' = [i \in 1..Len(queue) |->
                    IF i > current_index + 1 THEN [queue[i] EXCEPT !.status = CANCELLED]
                    ELSE queue[i]]
    /\ worker' = [t \in Callers |->
                     IF worker[t].pc = "dead" THEN worker[t]
                     ELSE [worker[t] EXCEPT !.cancelled = TRUE]]
    /\ UNCHANGED <<specFile, status, curCo, cfgCo, pc, loc, store, delTbl, cc, kv,
                   audit, deleted, curSid, nextSid, sidecar, gw, gwAlt, changes, faults, syncs,
                   hst>>
    /\ UNCHANGED <<current_index, completed_count, failed_count, total_companies, qgen,
                   adds, starts, wrote>>

\* clear_queue, accepted
clear_queue ==
    /\ NoPending
    /\ ~is_processing
    /\ queue # <<>>
    /\ queue' = <<>>
    /\ current_index' = -1
    /\ total_companies' = 0
    /\ completed_count' = 0
    /\ failed_count' = 0
    /\ UNCHANGED <<is_processing, worker, qgen, adds, starts, wrote>>

----------------------------------------------------------------------------
(* SyncService.get_status: the operations *)

\* progress of full_sync at table i (from 0) of a pass that starts at
\* start_idx: int(((start_idx + i) / total_tables) * 100)
progress_full(start_idx, i) == ((start_idx + i) * 100) \div (NumMaster + NumTransaction)

\* progress of _import_changed_records at table i of a pass over total
\* tables: int((i / total_tables) * 50) + 50
progress_import(i, total) == ((i * 50) \div total) + 50

\* number of tables of a pass, and the position of its first table
PassLen(phase) == IF phase = "master" THEN NumMaster ELSE NumTransaction
PassStart(phase) == IF phase = "master" THEN 0 ELSE NumMaster

\* full_sync or incremental_sync is admitted: _reset_status, RUNNING,
\* current_company and config.tally.company
start_session(t, kind, c, p) ==
    /\ run[t].pc = "idle"
    /\ runs > 0
    /\ pub.status # RUNNING
    /\ pub' = [reset_status(pub) EXCEPT
                  !.status = RUNNING,
                  !.current_company = IF c # "" THEN c ELSE pub.company,
                  !.company = IF c # "" THEN c ELSE pub.company]
    /\ run' = [run EXCEPT ![t] = [RunInit EXCEPT !.pc = "pre", !.kind = kind, !.par = p]]
    /\ runs' = runs - 1
    /\ UNCHANGED rejs

\* a rejected call that resets the status before it returns
reject_call_resets(t) ==
    /\ run[t].pc = "idle"
    /\ rejs > 0
    /\ pub.status = RUNNING
    /\ rejs' = rejs - 1
    /\ pub' = reset_status(pub)
    /\ UNCHANGED <<run, runs>>

\* full_sync or incremental_sync is called while a session is running: the
\* error is returned before anything is assigned
reject_call(t) ==
    /\ run[t].pc = "idle"
    /\ rejs > 0
    /\ pub.status = RUNNING
    /\ rejs' = rejs - 1
    /\ UNCHANGED <<pub, run, runs>>

\* the steps before the tables: connect, create_tables, history; for
\* full_sync the probe, the truncate and the config update, then the master
\* pass; for incremental_sync the alter ids and the change test.  Anything
\* that raises, and an empty probe, end the session as FAILED.
prologue(t) ==
    /\ run[t].pc = "pre"
    /\ \/ /\ pub' = [pub EXCEPT !.status = FAILED]
          /\ run' = [run EXCEPT ![t].pc = "tail"]
       \/ /\ run[t].kind = "full"
          /\ pub' = [pub EXCEPT !.current_table = IF run[t].par THEN -1 ELSE @]
          /\ run' = [run EXCEPT ![t].phase = "master", ![t].i = 0,
                                ![t].pc = IF run[t].par THEN "gather" ELSE "loop"]
       \/ /\ run[t].kind = "incremental"
          /\ \E m, x \in BOOLEAN :
                IF ~m /\ ~x
                THEN /\ pub' = [pub EXCEPT !.status = COMPLETED, !.progress = 100]
                     /\ run' = [run EXCEPT ![t].pc = "tail"]
                ELSE /\ run' = [run EXCEPT ![t].mch = m, ![t].tch = x, ![t].pc = "diff"]
                     /\ UNCHANGED pub
    /\ UNCHANGED <<runs, rejs>>

\* incremental_sync after _process_diff_for_primary_tables: the cancel check,
\* then the import pass of the first changed domain
diff_passes(t) ==
    /\ run[t].pc = "diff"
    /\ IF pub.cancel_requested
       THEN /\ pub' = [pub EXCEPT !.status = CANCELLED]
            /\ run' = [run EXCEPT ![t].pc = "tail"]
       ELSE /\ run' = [run EXCEPT ![t].pc = "loop", ![t].i = 0,
                                  ![t].phase = IF run[t].mch THEN "master" ELSE "transaction"]
            /\ UNCHANGED pub
    /\ UNCHANGED <<runs, rejs>>

\* _sync_tables_parallel: asyncio.gather of the fetches has returned
gather_tables(t) ==
    /\ run[t].pc = "gather"
    /\ run' = [run EXCEPT ![t].pc = "loop"]
    /\ UNCHANGED <<pub, runs, rejs>>

\* the head of a table loop with a table left and no cancel request:
\* current_table and progress are set, then the loop awaits the Gateway or
\* the store
table_progress(t) ==
    LET r == run[t]
    IN  /\ r.pc = "loop"
        /\ r.i < PassLen(r.phase)
        /\ ~pub.cancel_requested
        /\ pub' = [pub EXCEPT
                      !.current_table = PassStart(r.phase) + r.i + 1,
                      !.progress = IF r.kind = "full"
                                   THEN progress_full(PassStart(r.phase), r.i)
                                   ELSE progress_import(r.i, PassLen(r.phase))]
        /\ run' = [run EXCEPT ![t].pc = "work"]
        /\ UNCHANGED <<runs, rejs>>

\* a loop that tries a failed table again
table_rows_stays(t) ==
    /\ run[t].pc = "work"
    /\ \/ \E count \in 0..MaxCount :
             /\ pub' = [pub EXCEPT !.rows_processed = @ + count]
             /\ run' = [run EXCEPT ![t].pc = "loop", ![t].i = @ + 1]
       \/ /\ run[t].par
          /\ pub' = [pub EXCEPT !.status = FAILED]
          /\ run' = [run EXCEPT ![t].pc = "tail"]
       \/ /\ run' = [run EXCEPT ![t].pc = "loop"]
          /\ UNCHANGED pub
    /\ UNCHANGED <<runs, rejs>>

\* the table is done: rows_processed grows by the rows written; a failure is
\* logged and the loop goes on, except in the insert loop of the parallel
\* mode, where it ends the session as FAILED
table_rows(t) ==
    /\ run[t].pc = "work"
    /\ \/ \E count \in 0..MaxCount :
             /\ pub' = [pub EXCEPT !.rows_processed = @ + count]
             /\ run' = [run EXCEPT ![t].pc = "loop", ![t].i = @ + 1]
       \/ /\ run[t].par
          /\ pub' = [pub EXCEPT !.status = FAILED]
          /\ run' = [run EXCEPT ![t].pc = "tail"]
    /\ UNCHANGED <<runs, rejs>>

\* the loop of a pass is over, or returns on a cancel request: the next
\* pass, or the cancel check and COMPLETED with progress 100
phase_over(t) ==
    LET r == run[t]
        more == /\ r.phase = "master"
                /\ IF r.kind = "full" THEN ~pub.cancel_requested ELSE r.tch
    IN  /\ r.pc = "loop"
        /\ r.i = PassLen(r.phase) \/ pub.cancel_requested
        /\ IF more
           THEN /\ run' = [run EXCEPT ![t].phase = "transaction", ![t].i = 0,
                                      ![t].pc = IF r.par THEN "gather" ELSE "loop"]
                /\ pub' = [pub EXCEPT !.current_table = IF r.par THEN -1 ELSE @]
           ELSE /\ run' = [run EXCEPT ![t].pc = "tail"]
                /\ pub' = IF pub.cancel_requested
                          THEN [pub EXCEPT !.status = CANCELLED]
                          ELSE [pub EXCEPT !.status = COMPLETED, !.progress = 100]
        /\ UNCHANGED <<runs, rejs>>

\* the history is updated and get_status() is returned
session_returns(t) ==
    /\ run[t].pc = "tail"
    /\ run' = [run EXCEPT ![t] = RunInit]
    /\ UNCHANGED <<pub, runs, rejs>>

\* SyncService.cancel, accepted
request_cancel ==
    /\ pub.status = RUNNING
    /\ ~pub.cancel_requested
    /\ pub' = [pub EXCEPT !.cancel_requested = TRUE]
    /\ UNCHANGED <<run, runs, rejs>>

----------------------------------------------------------------------------
(* The specification *)

Next ==
    \/ (\E t \in Callers : full_sync_start(t)) /\ UNCHANGED <<rvars, wvars, qvars, svars>>
    \/ (\E t \in Callers : incremental_sync_start(t)) /\ UNCHANGED <<rvars, wvars, qvars, svars>>
    \/ (\E t \in Callers : rejected(t)) /\ UNCHANGED <<rvars, wvars, qvars, svars>>
    \/ (\E t \in Callers : connect(t)) /\ UNCHANGED <<rvars, wvars, qvars, svars>>
    \/ (\E t \in Callers : full_probe(t)) /\ UNCHANGED <<rvars, wvars, qvars, svars>>
    \/ (\E t \in Callers : full_truncate(t)) /\ UNCHANGED <<rvars, wvars, qvars, svars>>
    \/ (\E t \in Callers : update_config_pre(t)) /\ UNCHANGED <<rvars, wvars, qvars, svars>>
    \/ (\E t \in Callers : full_sync_table(t)) /\ UNCHANGED <<rvars, wvars, qvars, svars>>
    \/ (\E t \in Callers : full_fetch_table(t)) /\ UNCHANGED <<rvars, wvars, qvars, svars>>
    \/ (\E t \in Callers : full_insert_table(t)) /\ UNCHANGED <<rvars, wvars, qvars, svars>>
    \/ (\E t \in Callers : full_phase_end(t)) /\ UNCHANGED <<rvars, wvars, qvars, svars>>
    \/ (\E t \in Callers : inc_last(t)) /\ UNCHANGED <<rvars, wvars, qvars, svars>>
    \/ (\E t \in Callers : inc_current(t)) /\ UNCHANGED <<rvars, wvars, qvars, svars>>
    \/ (\E t \in Callers : inc_diff_stage(t)) /\ UNCHANGED <<rvars, wvars, qvars, svars>>
    \/ (\E t \in Callers : inc_diff_delete(t)) /\ UNCHANGED <<rvars, wvars, qvars, svars>>
    \/ (\E t \in Callers : inc_diff_end(t)) /\ UNCHANGED <<rvars, wvars, qvars, svars>>
    \/ (\E t \in Callers : inc_import_table(t)) /\ UNCHANGED <<rvars, wvars, qvars, svars>>
    \/ (\E t \in Callers : inc_import_end(t)) /\ UNCHANGED <<rvars, wvars, qvars, svars>>
    \/ (\E t \in Callers : finish(t)) /\ UNCHANGED <<rvars, wvars, qvars, svars>>
    \/ (\E t \in {M, V}, n \in 1..MaxGuid : GwAlter(t, n)) /\ UNCHANGED <<rvars, wvars, qvars, svars>>
    \/ (\E t \in {M, V}, n \in 1..MaxGuid : GwDelete(t, n)) /\ UNCHANGED <<rvars, wvars, qvars, svars>>
    \/ (cancel) /\ UNCHANGED <<rvars, wvars, qvars, svars>>
    \/ (restart) /\ UNCHANGED <<rvars, wvars, qvars, svars>>
    \/ (crash) /\ UNCHANGED <<rvars, wvars, qvars, svars>>
    \/ (dismiss_incomplete_sync) /\ UNCHANGED <<rvars, wvars, qvars, svars>>

Spec == Init /\ [][Next]_allvars

\* the retry service alone
RetryNext ==
    \/ (\E k \in Tasks : execute_with_retry(k)) /\ UNCHANGED <<vars, wvars, qvars, svars>>
    \/ (\E k \in Tasks : func_returns(k)) /\ UNCHANGED <<vars, wvars, qvars, svars>>
    \/ (\E k \in Tasks : func_raises(k)) /\ UNCHANGED <<vars, wvars, qvars, svars>>
    \/ (\E k \in Tasks : retry(k)) /\ UNCHANGED <<vars, wvars, qvars, svars>>
    \/ Tick /\ UNCHANGED <<vars, wvars, qvars, svars>>

SpecRetry == Init /\ [][RetryNext]_allvars

\* one caller of each wrapper, one after the other: send_xml under the retry
\* decorator, and an operation under execute_with_retry whose failures are
\* of either kind
WrapNext ==
    \/ send_xml /\ UNCHANGED <<vars, rvars, qvars, svars>>
    \/ post_returns /\ UNCHANGED <<vars, rvars, qvars, svars>>
    \/ (\E e \in Kinds : post_raises(e)) /\ UNCHANGED <<vars, rvars, qvars, svars>>
    \/ resend /\ UNCHANGED <<vars, rvars, qvars, svars>>
    \/ execute_with_retry(1) /\ UNCHANGED <<vars, wvars, qvars, svars>>
    \/ func_returns(1) /\ sh' = [sh EXCEPT !.eev = "ok"] /\ UNCHANGED <<vars, dec, sends, qvars, svars>>
    \/ (\E e \in Kinds : func_raises(1) /\ sh' = [sh EXCEPT !.eev = e])
          /\ UNCHANGED <<vars, dec, sends, qvars, svars>>
    \/ retry(1) /\ UNCHANGED <<vars, wvars, qvars, svars>>
    \/ Tick /\ UNCHANGED <<vars, wvars, qvars, svars>>

SpecWrap == Init /\ [][WrapNext]_allvars

\* the queue service over the Synchronizer: the callers of full_sync are
\* the _process_queue tasks
QueueNext ==
    \/ (\E cs \in CompanyLists : add_companies(cs)) /\ UNCHANGED <<vars, rvars, wvars, svars>>
    \/ (\E t \in Callers : start_processing(t)) /\ UNCHANGED <<vars, rvars, wvars, svars>>
    \/ (\E t \in Callers : process_queue(t)) /\ UNCHANGED <<rvars, wvars, svars>>
    \/ cancel_queue /\ UNCHANGED <<rvars, wvars, svars>>
    \/ clear_queue /\ UNCHANGED <<vars, rvars, wvars, svars>>
    \/ (\E t \in Callers : connect(t)) /\ QueueKeeps /\ UNCHANGED <<rvars, wvars, svars>>
    \/ (\E t \in Callers : full_probe(t)) /\ QueueKeeps /\ UNCHANGED <<rvars, wvars, svars>>
    \/ (\E t \in Callers : full_truncate(t)) /\ QueueKeeps /\ UNCHANGED <<rvars, wvars, svars>>
    \/ (\E t \in Callers : update_config_pre(t)) /\ QueueKeeps /\ UNCHANGED <<rvars, wvars, svars>>
    \/ (\E t \in Callers : full_sync_table(t)) /\ QueueKeeps /\ UNCHANGED <<rvars, wvars, svars>>
    \/ (\E t \in Callers : full_phase_end(t)) /\ QueueKeeps /\ UNCHANGED <<rvars, wvars, svars>>
    \/ (\E t \in Callers : sync_returns(t)) /\ UNCHANGED <<rvars, wvars, svars>>

SpecQueue == Init /\ [][QueueNext]_allvars

\* the published status under calls of full_sync (both modes) and
\* incremental_sync by two callers
StatusNext ==
    \/ (\E t \in Callers, c \in Companies \cup {""}, p \in BOOLEAN :
           start_session(t, "full", c, p)) /\ UNCHANGED <<vars, rvars, wvars, qvars>>
    \/ (\E t \in Callers, c \in Companies \cup {""} :
           start_session(t, "incremental", c, FALSE)) /\ UNCHANGED <<vars, rvars, wvars, qvars>>
    \/ (\E t \in Callers : reject_call(t)) /\ UNCHANGED <<vars, rvars, wvars, qvars>>
    \/ (\E t \in Callers : prologue(t)) /\ UNCHANGED <<vars, rvars, wvars, qvars>>
    \/ (\E t \in Callers : diff_passes(t)) /\ UNCHANGED <<vars, rvars, wvars, qvars>>
    \/ (\E t \in Callers : gather_tables(t)) /\ UNCHANGED <<vars, rvars, wvars, qvars>>
    \/ (\E t \in Callers : table_progress(t)) /\ UNCHANGED <<vars, rvars, wvars, qvars>>
    \/ (\E t \in Callers : table_rows(t)) /\ UNCHANGED <<vars, rvars, wvars, qvars>>
    \/ (\E t \in Callers : phase_over(t)) /\ UNCHANGED <<vars, rvars, wvars, qvars>>
    \/ (\E t \in Callers : session_returns(t)) /\ UNCHANGED <<vars, rvars, wvars, qvars>>
    \/ request_cancel /\ UNCHANGED <<vars, rvars, wvars, qvars>>

SpecStatus == Init /\ [][StatusNext]_allvars

\* a step of the coroutine of caller t: the call it awaits has returned or
\* raised and the event loop resumes it
SessionStep(t) ==
    (\/ prologue(t) \/ diff_passes(t) \/ gather_tables(t) \/ table_progress(t)
     \/ table_rows(t) \/ phase_over(t) \/ session_returns(t))
    /\ UNCHANGED <<vars, rvars, wvars, qvars>>

\* the published status when every awaited call returns or raises: a
\* coroutine that can go on is resumed
SpecStatusLive ==
    Init /\ [][StatusNext]_allvars /\ \A t \in Callers : WF_allvars(SessionStep(t))

----------------------------------------------------------------------------
(* Properties *)

\* a session that has been admitted and has not reached a terminal status
NonTerminal(t) == pc[t] # "idle" /\ hst[t].term = "none"

\* C1: a full_sync whose probe decoded zero rows has ended as failed, has
\* not run the truncation and has changed no row of any table, whatever the
\* company
C1_EmptyProbeAborts ==
    \A t \in Callers :
        hst[t].probe = "empty" =>
            /\ hst[t].term = FAILED
            /\ pc[t] = "finish"
            /\ ~hst[t].trunc
            /\ hst[t].hit = {}

\* C1, the case: the probe of a full_sync came back empty while the store
\* held rows of the target company
C1_Witness ==
    \E t \in Callers :
        /\ hst[t].probe = "empty"
        /\ \E x \in Tables : RowsOf(store[x], hst[t].co) # {}

\* C2: in every full_sync, whatever the table specs (the file may be missing,
\* the master tables may be none), the truncation has run only after a probe
\* that decoded at least one row
C2_TruncateOnlyAfterProbe ==
    \A t \in Callers : hst[t].trunc => hst[t].probe = "rows"

\* C3: no sync changes a row whose _company differs from its target company,
\* by truncation, diff deletion, cascade deletion or upsert, whatever the
\* trigger and also when no company is passed
C3_OnlyTargetCompany ==
    \A t \in Callers : hst[t].hit \subseteq {hst[t].co}

\* C4: at most one session is non-terminal at any time, and the service is
\* RUNNING exactly while there is one
C4_SingleSession ==
    /\ Cardinality({t \in Callers : NonTerminal(t)}) <= 1
    /\ (status = RUNNING) <=> (\E t \in Callers : NonTerminal(t))

\* C4, the case: a session runs while the other caller, whose own session
\* has ended, is still in the tail of its call
C4_Witness ==
    \E t, u \in Callers :
        /\ t # u
        /\ NonTerminal(t)
        /\ pc[u] = "finish"

\* C5: a session that has ended failed or cancelled has not replaced the
\* alter ids company_config held for its target company
C5_AlterIdsKeptOnFailure ==
    \A t \in Callers : hst[t].term \in {FAILED, CANCELLED} => ~hst[t].ccHit

\* C6: when an incremental sync returns, last_alter_id_master of its target
\* equals the master alter id the Gateway had at its start exactly when the
\* sync completed, also when the Gateway advanced meanwhile
C6_AlterIdIsStartValue ==
    [][\A t \in Callers :
         (pc[t] = "finish" /\ pc'[t] = "idle" /\ loc[t].kind = "incremental")
            => (hst[t].term = COMPLETED
                  <=> (cc'[TargetOf(hst[t].co)] # NoRow
                       /\ cc'[TargetOf(hst[t].co)].lm = hst[t].alt0))]_vars

\* C7: when a full sync of company C completes, the rows of C in every table
\* are exactly the rows it decoded from the Gateway
C7_StoreEqualsDecoded ==
    [][\A t \in Callers :
         (loc[t].kind = "full" /\ hst[t].term = "none" /\ hst'[t].term = COMPLETED)
            => \A x \in Tables :
                  Unstamp(RowsOf(store'[x], hst[t].co)) = hst'[t].dec[x]]_vars

\* C8: a row of a Primary table whose alter id changed is audited as a DELETE
\* followed by an INSERT: no UPDATE event joins two different alter ids
C8_NeverUpdate ==
    \A i \in DOMAIN audit :
        (audit[i].act = "UPDATE" /\ IsPrimary(audit[i].tbl))
            => audit[i].old.alt = audit[i].new.alt

\* C9: every DELETE event has a deleted record of the same table, guid and
\* session id, also when writes of the recorder fail
C9_DeleteHasDeletedRow ==
    \A i \in DOMAIN audit :
        audit[i].act = "DELETE"
            => \E d \in deleted : /\ d.tbl = audit[i].tbl
                                  /\ d.guid = audit[i].guid
                                  /\ d.sid = audit[i].sid

\* C10: every UPDATE event lists at least one changed column and every
\* column it lists differs between its snapshots: log_update records nothing
\* when the snapshots agree
C10_UpdateHasChanges ==
    \A i \in DOMAIN audit :
        audit[i].act = "UPDATE"
            => /\ audit[i].chg # {}
               /\ \A c \in audit[i].chg : audit[i].old[c] # audit[i].new[c]

\* C11: every audit event an incremental sync records carries the session id
\* created when that sync started, and that id is not None, however the
\* starts and ends of other calls interleave
C11_EventsCarrySessionId ==
    [][\A i \in (Len(audit) + 1)..Len(audit') :
          /\ audit'[i].sid # 0
          /\ \E t \in Callers : /\ NonTerminal(t)
                                /\ loc[t].kind = "incremental"
                                /\ audit'[i].sid = hst[t].sid]_vars

\* C12: a failing write of the recorder (audit_log or deleted_records) does
\* not abort the sync: the session does not become failed, the data write the
\* event accompanies is made, and the rows written before stay
C12_AuditFailureSwallowed ==
    [][\A t \in Callers :
         /\ hst'[t].afail => hst'[t].term # FAILED
         /\ (~hst[t].afail /\ hst'[t].afail) =>
              LET l == loc[t]
                  tn == IF pc[t] = "del" THEN PrimaryTables(l)[l.idx]
                        ELSE PhaseTables(l)[l.idx]
                  last == IF l.phase = "master" THEN l.lastM ELSE l.lastT
                  gone == IF pc[t] = "del"
                          THEN {o \in RowsOf(store[tn], curCo) : o.guid \in delTbl}
                          ELSE {}
                  rows == IF pc[t] = "del" THEN {}
                          ELSE Stamp(extract_table_data(tn, last, TRUE), curCo)
              IN  /\ status' = RUNNING
                  /\ hst'[t].term = "none"
                  /\ gone \cap store'[tn] = {}
                  /\ rows \subseteq store'[tn]
                  /\ \A o \in store[tn] \ gone :
                        o \in store'[tn] \/ \E r \in rows : r.guid = o.guid
                  /\ \A x \in Tables \ ({tn} \cup cascade_delete(tn)) :
                        store'[x] = store[x]]_vars

\* C12, the case: a session whose recorder failed on a write has completed
C12_Witness ==
    \E t \in Callers : hst[t].afail /\ hst[t].term = COMPLETED

\* C13: a session during which cancel() was accepted does not end completed
\* (the flag, cleared at admission, is set when the session takes its
\* terminal status)
C13_CancelNeverCompleted ==
    [][\A t \in Callers :
         (hst[t].term = "none" /\ hst'[t].term # "none" /\ cancelReq)
            => hst'[t].term # COMPLETED]_vars

\* C14: when the process dies during a full sync that is running and has no
\* terminal status yet, the sidecar file holds a record with status running
\* at the restart
C14_CrashLeavesSidecar ==
    [][\A t \in Callers :
         (loc[t].kind = "full" /\ NonTerminal(t) /\ pc'[t] = "idle")
            => sidecar' = "running"]_vars

\* C15: when a sync, full or incremental, returns completed while no other
\* call is in progress, and when the record is dismissed, get_incomplete_sync
\* reports nothing
C15_NoSidecarAfterCompletion ==
    [][/\ \A t \in Callers :
            (/\ pc[t] = "finish" /\ pc'[t] = "idle"
             /\ hst[t].term = COMPLETED /\ status' = COMPLETED
             /\ \A u \in Callers \ {t} : pc[u] = "idle")
               => get_incomplete_sync' = "none"
       /\ (sidecar # sidecar' /\ UNCHANGED <<pc, loc, hst>>)
             => get_incomplete_sync' = "none"]_vars

\* C16: a Closed breaker opens exactly when failure_threshold failures have
\* been recorded in a row: while it is Closed the failures in a row stay
\* below the threshold, and it leaves Closed only for Open, on the failure
\* that completes the threshold
C16_OpensAtThreshold ==
    [][/\ cb'.state = CLOSED => rh'.streak < failure_threshold
       /\ (cb.state = CLOSED /\ cb'.state # CLOSED)
             => (cb'.state = OPEN /\ rh'.streak = failure_threshold)]_allvars

\* C16, the case: the breaker has opened from Closed on the failure that
\* completed the threshold
C16_Witness ==
    /\ cb.state = OPEN /\ rh.prev = CLOSED
    /\ rh.streak = failure_threshold
    /\ cb.last_failure_time = now

\* C17: func is never called while the breaker is Open and recovery_timeout
\* has not elapsed since the last failure, the retries of an invocation
\* admitted earlier included
C17_NoCallWhileOpen ==
    [][\A k \in Tasks :
         (task[k].pc # "func" /\ task'[k].pc = "func")
            => ~(cb'.state = OPEN /\ now - cb'.last_failure_time < recovery_timeout)]_allvars

\* C18: while the breaker is HalfOpen at most half_open_max_calls calls have
\* been admitted since it became HalfOpen
C18_HalfOpenAdmitsK ==
    cb.state = HALF_OPEN => rh.probes <= half_open_max_calls

\* C19: the breaker goes from HalfOpen to Closed only when
\* half_open_max_calls successes have been recorded since it last became
\* HalfOpen
C19_ClosesAfterKProbes ==
    [][(cb.state = HALF_OPEN /\ cb'.state = CLOSED)
          => rh'.wins >= half_open_max_calls]_allvars

\* C20: a failure recorded while the breaker is HalfOpen opens it and sets
\* last_failure_time to the time of that failure, and an Open breaker admits
\* a call only when recovery_timeout has elapsed since last_failure_time
C20_HalfOpenFailureReopens ==
    [][/\ (cb.state = HALF_OPEN /\ rh'.streak = rh.streak + 1)
             => (cb'.state = OPEN /\ cb'.last_failure_time = now)
       /\ \A k \in Tasks :
             (cb.state = OPEN /\ task[k].pc = "idle" /\ task'[k].pc = "func")
                => now - cb.last_failure_time >= recovery_timeout]_allvars

\* C20, the case: a failure recorded in HalfOpen has just reopened the
\* breaker
C20_Witness ==
    /\ cb.state = OPEN /\ rh.prev = HALF_OPEN
    /\ cb.last_failure_time = now

\* C21: every Gateway send goes through the retry-plus-circuit-breaker
\* layer: once failure_threshold sends have failed in a row, and until
\* recovery_timeout has passed since the last of them, a further send_xml
\* call makes no transport attempt.
C21_OpenCircuitStopsSends ==
    [][(dec.pc # "func" /\ dec'.pc = "func")
         => ~(sh.fails >= failure_threshold /\ now - sh.last < recovery_timeout)]_allvars

\* C22: a retried call makes at most max_attempts attempts, returns at the
\* first success, raises the last failure when the last attempt fails, and
\* makes no further attempt after a failure of a kind that is not listed as
\* retryable; this for the retry decorator and for execute_with_retry.
C22_RetryContract ==
    [][/\ dec'.attempt <= send_max_attempts
       /\ task'[1].attempt <= max_attempts
       /\ (dec.pc = "func" /\ dec'.pc # "func") =>
             /\ sh'.dev = "ok" => dec'.pc = "idle"
             /\ sh'.dev = "other" => dec'.pc = "idle"
             /\ sh'.dev = "listed" =>
                   (dec'.pc = "idle") = (dec.attempt = send_max_attempts)
       /\ (task[1].pc = "func" /\ task'[1].pc # "func") =>
             /\ sh'.eev = "ok" => task'[1].pc = "idle"
             /\ sh'.eev = "other" => task'[1].pc = "idle"
             /\ sh'.eev = "listed" =>
                   (task'[1].pc = "idle") = (task[1].attempt = max_attempts)
      ]_allvars

\* C23: at most one _process_queue task is alive at any time, and
\* add_companies and start_processing are accepted only when none is.
C23_OneQueueWorker ==
    [][/\ Cardinality({t \in Callers : worker'[t].pc # "dead"}) <= 1
       /\ qgen' # qgen => \A t \in Callers : worker[t].pc = "dead"
       /\ (\E t \in Callers : worker[t].pc = "dead" /\ worker'[t].pc = "ready")
             => \A t \in Callers : worker[t].pc = "dead"
      ]_allvars

\* C24: when cancel_queue is accepted during processing, the cancel reaches
\* the running sync and every item after the current one is marked
\* cancelled; a _process_queue task that was alive at that moment starts no
\* further item and ends as soon as its sync has returned; and no rows are
\* written for the company of an item that was never started.
C24_CancelStopsQueue ==
    [][/\ (/\ is_processing /\ ~is_processing'
           /\ \A t \in Callers : worker'[t].pc = worker[t].pc)
             => /\ status = RUNNING => cancelReq'
                /\ \A i \in DOMAIN queue' :
                      i > current_index + 1 => queue'[i].status = CANCELLED
       /\ \A t \in Callers :
             (worker[t].cancelled /\ worker'[t].pc # worker[t].pc)
                => /\ worker'[t].pc \in {"returned", "dead"}
                   /\ worker[t].pc \in {"ready", "returned"}
                         => /\ worker'[t].pc = "dead"
                            /\ \A i \in DOMAIN queue' :
                                  queue'[i].started = queue[i].started
       /\ \A i \in DOMAIN queue' : ~queue'[i].started => queue'[i].company \notin wrote'
      ]_allvars

\* C26: a session in which a write of replicated rows to the store failed
\* (bulk insert or upsert) ends failed, in sequential and in parallel mode:
\* it never ends completed.
C26_WriteFailureFails ==
    \A t \in Callers : hst[t].wfail => hst[t].term # COMPLETED

\* C27: when the extraction of a table fails, the table contributes no
\* rows, the session goes on with the next table and its status is not
\* changed by the failure.
C27_ExtractFailureSkipsTable ==
    [][\A t \in Callers : \A x \in hst'[t].xf \ hst[t].xf :
          /\ store'[x] = store[x]
          /\ loc[t].kind = "full" => hst'[t].dec[x] = {}
          /\ status' = status
          /\ hst'[t].term = hst[t].term
          /\ \/ loc'[t].idx = loc[t].idx + 1 /\ pc'[t] = pc[t]
             \/ loc[t].par /\ loc[t].idx = Len(PhaseTables(loc[t]))
                   /\ loc'[t].idx = 1 /\ pc'[t] = "table"
      ]_allvars

\* C27, the case: the extraction of the master table failed, and the session
\* completed with the rows of a later table in the store
C27_Witness ==
    \E t \in Callers :
        /\ M \in hst[t].xf
        /\ hst[t].term = COMPLETED
        /\ RowsOf(store[V], hst[t].co) # {}

\* C28: incremental sync completes with zero work exactly when the master
\* and transaction alter ids the Gateway publishes for the company both
\* equal the stored values the session read at its start; otherwise the
\* diff and import phases run for each domain whose alter id differs.
C28_ZeroWorkIffUnchanged ==
    [][\A t \in Callers :
          (pc[t] = "cur" /\ pc'[t] # "cur") =>
             LET g == GwAlterIds(TargetOf(curCo))
                 same == g.master = loc[t].lastM /\ g.transaction = loc[t].lastT
             IN  /\ (pc'[t] = "finish" /\ hst'[t].term = COMPLETED) <=> same
                 /\ ~same => /\ pc'[t] = "diff"
                             /\ loc'[t].mch = (g.master # loc[t].lastM)
                             /\ loc'[t].tch = (g.transaction # loc[t].lastT)
      ]_allvars

\* C29: a full sync increases sync_count of its company by exactly 1, when
\* it completes (a first sync creates the row with sync_count 1): no step of
\* a full sync changes a sync_count except the return of a completed one,
\* which adds 1 to that of its company.
C29_SyncCountPerCompletedSync ==
    [][LET cnt(c, n) == IF c[n] = NoRow THEN 0 ELSE c[n].cnt
       IN  \A t \in Callers :
              (loc[t].kind = "full" /\ pc'[t] # pc[t]) =>
                 LET done == /\ hst[t].term = COMPLETED
                             /\ pc[t] = "finish" /\ pc'[t] = "idle"
                 IN  \A n \in CcNames :
                        cnt(cc', n) = (IF done /\ n = TargetOf(hst[t].co)
                                       THEN cnt(cc, n) + 1 ELSE cnt(cc, n))
      ]_allvars

\* C25: a call of full_sync or incremental_sync while a session is running
\* returns at once and changes none of status, progress, current_table,
\* rows_processed, the cancel flag, current_company and
\* config.tally.company, nor where the running session stands.
C25_RejectedCallChangesNothing ==
    [][rejs' # rejs => (pub' = pub /\ run' = run)]_allvars

\* C25, the case: a call was rejected during a session that had made
\* progress and whose cancellation had been requested, and the session still
\* runs as it was
C25_Witness ==
    /\ rejs < MaxRejects
    /\ pub.status = RUNNING
    /\ pub.progress > 0
    /\ pub.rows_processed > 0
    /\ pub.cancel_requested
    /\ pub.current_company = "B"

\* C30: within a session the published progress stays in 0..100 and never
\* decreases from one step to the next, and neither does rows_processed, in
\* full sync (both modes) and in incremental sync.
C30_ProgressMonotonic ==
    [][(\A t \in Callers : ~(run[t].pc = "idle" /\ run'[t].pc # "idle"))
          => /\ pub'.progress \in 0..100
             /\ pub'.progress >= pub.progress
             /\ pub'.rows_processed >= pub.rows_processed
      ]_allvars

\* C31: in a full sync the inserts follow the declaration order of the
\* tables, one table at a time, the master tables before the transaction
\* tables, in sequential and in parallel mode: a step of the insert loop
\* writes only the table whose place among the table specs the session stands at,
\* then stands at the next place; the transaction phase begins only after
\* the last master table and is never left for the master phase (the
\* session may also end, or die with the process).
C31_InsertsInDeclaredOrder ==
    [][\A t \in Callers :
          (loc[t].kind = "full" /\ pc[t] = "table"
              /\ (pc'[t] # pc[t] \/ loc'[t] # loc[t])) =>
             LET l == loc[t]
                 all == get_master_tables \o get_transaction_tables
                 pos == (IF l.phase = "master" THEN 0 ELSE Len(get_master_tables)) + l.idx
             IN  /\ \A x \in Tables :
                       store'[x] # store[x] => (pos <= Len(all) /\ x = all[pos])
                 /\ \/ pc'[t] \in {"finish", "idle"}
                    \/ /\ loc'[t].phase = l.phase
                       /\ loc'[t].idx = l.idx + 1
                       /\ pc'[t] = "table"
                    \/ /\ l.phase = "master" /\ loc'[t].phase = "transaction"
                       /\ l.idx = Len(get_master_tables) + 1
                       /\ loc'[t].idx = 1
                       /\ store' = store
      ]_allvars

\* C31, the case: a full sync in parallel mode has inserted the rows of the
\* master table and of both transaction tables
C31_Witness ==
    \E t \in Callers :
        /\ loc[t].kind = "full" /\ loc[t].par /\ pc[t] = "table"
        /\ loc[t].phase = "transaction" /\ loc[t].idx = Len(TRANSACTION_TABLES) + 1
        /\ \A x \in Tables : RowsOf(store[x], curCo) # {}

\* C32: in the diff phase of an incremental sync the delete of the staged
\* Primary rows and the delete of their cascade child rows are one unit: no
\* step that works through _delete leaves a staged parent removed while its
\* child rows remain, or the child rows removed while the parent remains.
C32_CascadeDeleteAtomic ==
    [][\A t \in Callers :
          (pc[t] = "del" /\ pc'[t] = "diff") =>
             LET tn == PrimaryTables(loc[t])[loc[t].idx]
             IN  \A x \in cascade_delete(tn) : \A g \in delTbl :
                    ((\E o \in RowsOf(store[tn], curCo) : o.guid = g)
                        /\ (\E k \in store[x] : k.guid = g)) =>
                       ((\E o \in RowsOf(store'[tn], curCo) : o.guid = g)
                           <=> (\E k \in store'[x] : k.guid = g))
      ]_allvars

\* C33: once the cancel flag is set, a session that has not ended begins work
\* on no further table: a step it takes with the flag set changes the rows of
\* at most the table in flight (and of that table's cascade children), never
\* of a later table as well.
C33_NoTableAfterCancel ==
    [][\A t \in Callers :
          (cancelReq /\ hst[t].term = "none" /\ pc[t] # "idle"
              /\ (pc'[t] # pc[t] \/ loc'[t] # loc[t])) =>
             \E x \in Tables :
                {y \in Tables : store'[y] # store[y]} \subseteq {x} \cup cascade_delete(x)
      ]_allvars

\* C34: a full sync that ends cancelled, in whichever phase the flag was
\* seen, leaves the sidecar file in place: when its call returns, a sidecar
\* with status running is still there with status running.
C34_CancelledKeepsSidecar ==
    [][\A t \in Callers :
          (loc[t].kind = "full" /\ hst[t].term = CANCELLED
              /\ pc[t] = "finish" /\ pc'[t] = "idle" /\ sidecar = "running") =>
             sidecar' = "running"
      ]_allvars

\* C36: at most one invocation is between its admission and the return that
\* follows its disconnect: no session is admitted while another invocation
\* still has the steps after its terminal status to do.
C36_OneInvocationAtATime ==
    Cardinality({t \in Callers : pc[t] # "idle"}) <= 1

\* C37: an incremental sync goes on to delete Primary rows of a table only
\* for guids that the Gateway's answer to the diff request omits or lists
\* with another alter id; a row the Gateway still holds unchanged is never
\* staged for deletion, also when the diff request fails.
C37_DeleteOnlyOnObtainedDiff ==
    [][\A t \in Callers :
          (pc[t] = "diff" /\ pc'[t] = "del") =>
             LET tn == PrimaryTables(loc[t])[loc[t].idx]
                 held == extract_table_data(tn, 0, TRUE)
             IN  \A o \in RowsOf(store[tn], curCo) :
                    o.guid \in delTbl' =>
                       ~ \E d \in held : d.guid = o.guid /\ d.alt = o.alt
      ]_allvars

\* C35: a call that arrives while the breaker is Open is admitted, the
\* breaker going to HalfOpen, exactly when recovery_timeout has elapsed since
\* the breaker went to Open; failures recorded after that do not postpone it.
C35_OpenTimedFromTransition ==
    [][(cb.state = OPEN /\ calls' = calls - 1) =>
          ((cb'.state = HALF_OPEN
               /\ \E k \in Tasks : task[k].pc = "idle" /\ task'[k].pc = "func")
              <=> now - rh.opened >= recovery_timeout)
      ]_allvars

\* C38: when the Gateway's data has not changed and no request or write has
\* failed, an incremental sync that completes for a company synchronized
\* before (it read the alter ids an earlier sync stored, and no other
\* company has been synchronized), with no other invocation under way, leaves for every Primary table the company's rows equal to the
\* Gateway's rows, also after an earlier sync that was cancelled midway.
C38_ConvergesAfterIncremental ==
    [][\A t \in Callers :
          (/\ loc[t].kind = "incremental"
           /\ hst[t].term = "none" /\ hst'[t].term = COMPLETED
           /\ \A u \in Callers \ {t} : pc[u] = "idle"
           /\ changes = MaxChanges /\ faults' = MaxFaults
           /\ curCo \in Companies /\ loc[t].lastM > 0 /\ loc[t].lastT > 0
           /\ \A c \in CcNames \ {curCo} : cc[c] = NoRow) =>
             \A x \in Range(get_master_tables \o get_transaction_tables) :
                IsPrimary(x) =>
                   RowsOf(store'[x], curCo) = Stamp(GwRows(x, Target), curCo)
      ]_allvars

\* C39: when the sync of a queue item returns failed, the worker marks that
\* item failed, adds one to failed_count and goes on to the next item of the
\* list; a worker ends before the end of the list only when the sync of an
\* item returned cancelled or cancel_queue was called.
C39_FailedItemGoesOn ==
    [][\A t \in Callers :
          (worker[t].pc = "returned" /\ worker'[t].pc # "returned") =>
             LET w == worker[t]
                 failed == w.res \notin {COMPLETED, CANCELLED}
                 stopped == w.res = CANCELLED \/ w.cancelled
             IN  /\ failed =>
                       /\ (w.gen = qgen /\ w.idx < Len(queue))
                             => queue'[w.idx + 1].status = FAILED
                       /\ failed_count' >= failed_count + 1
                       /\ worker'[t].pc = "await" => worker'[t].idx = w.idx + 1
                 /\ (worker'[t].pc = "dead" /\ ~stopped) => current_index' >= Len(queue')
      ]_allvars

\* C40: every admitted session reaches a terminal status (completed, failed
\* or cancelled) when every awaited call returns or raises, and the status
\* does not stay running forever.
C40_SessionsTerminate ==
    /\ \A t \in Callers :
          (run[t].pc \notin {"idle", "tail"})
             ~> (run[t].pc = "tail" /\ pub.status \in {COMPLETED, FAILED, CANCELLED})
    /\ (pub.status = RUNNING) ~> (pub.status # RUNNING)

C40_Witness ==
    \E t \in Callers :
        /\ run[t].pc = "tail" /\ run[t].kind = "incremental" /\ run[t].phase = "transaction"
        /\ pub.status = COMPLETED
        /\ pub.rows_processed > 0
        /\ \A u \in Callers \ {t} : run[u].pc = "idle"
====
